---- MODULE Spec2Model ----
(***************************************************************************)
(* Model of the WireGuard-spa provisioning backend:                        *)
(*   api/shared/vm_provisioner.py  (VMProvisioner, dry-run simulation)     *)
(*   api/start_job, api/job_status (HTTP handlers)                         *)
(*   api/shared/status_store.py    (in-memory job ledger)                  *)
(*                                                                         *)
(* Text is modelled as a sequence of tokens.  Each literal the code        *)
(* searches for is one token:                                              *)
(*   "S"  === WIREGUARD_CLIENT_CONFIG_START ===                            *)
(*   "E"  === WIREGUARD_CLIENT_CONFIG_END ===                              *)
(*   "I"  [Interface]          "P"  [Peer]                                 *)
(*   "R"  REPLACE_WITH_PUBLIC_IP    "K"  :51820                            *)
(*   "A"  the text of the resolved public address                          *)
(*   "D"  the dry-run address 203.0.113.42                                 *)
(*   "w"  one whitespace character  "x"  any other text                    *)
(* Python's None is the one-token sequence <<"#None">>, which is no text.  *)
(***************************************************************************)
EXTENDS Integers, Sequences, FiniteSets, TLC

\* ------------------------------------------------------------------------
\* Bounds
\* ------------------------------------------------------------------------
MaxLen == 5
MaxTime == 1
MaxCalls == 2
MaxDryTime == 9
MaxJobs == 2
MaxAttempts == 2
MaxExCalls == 3
MaxDryOps == 1
MaxFeed == 1
MaxApiJobs == 1
MaxInst == 1

\* ------------------------------------------------------------------------
\* Text helpers (Python str semantics on token sequences)
\* ------------------------------------------------------------------------
None == <<"#None">>

Alphabet == {"S", "E", "I", "P", "w", "x"}

RECURSIVE TextsUpTo(_)
TextsUpTo(n) ==
    IF n = 0 THEN {<<>>}
    ELSE LET shorter == TextsUpTo(n - 1)
         IN  shorter \cup {Append(t, c) : t \in {u \in shorter : Len(u) = n - 1}, c \in Alphabet}

\* str.find(tok): 0-based index of the first occurrence, -1 when absent
Find(s, tok) ==
    IF \E i \in 1..Len(s) : s[i] = tok
    THEN (CHOOSE i \in 1..Len(s) : s[i] = tok /\ \A j \in 1..(i - 1) : s[j] # tok) - 1
    ELSE -1

\* tok in s
Contains(s, tok) == \E i \in 1..Len(s) : s[i] = tok

\* s[a:b] for 0-based a, b >= 0 (Python slice: clipped, empty when a >= b)
Slice(s, a, b) ==
    LET hi == IF b > Len(s) THEN Len(s) ELSE b
    IN  IF a >= hi THEN <<>> ELSE SubSeq(s, a + 1, hi)

\* str.strip(): drop leading and trailing whitespace
Strip(s) ==
    IF \A i \in 1..Len(s) : s[i] = "w" THEN <<>>
    ELSE LET lo == CHOOSE i \in 1..Len(s) : s[i] # "w" /\ \A j \in 1..(i - 1) : s[j] = "w"
             hi == CHOOSE i \in 1..Len(s) : s[i] # "w" /\ \A j \in (i + 1)..Len(s) : s[j] = "w"
         IN  SubSeq(s, lo, hi)

\* ------------------------------------------------------------------------
\* VMProvisioner._extract_wireguard_config
\* ------------------------------------------------------------------------
extract_no_validation(output) ==
    IF output = None THEN None
    ELSE LET start_idx == Find(output, "S")
             end_idx == Find(output, "E")
         IN  IF start_idx # -1 /\ end_idx # -1
             THEN Strip(Slice(output, start_idx + 1, end_idx))
             ELSE None

extract_wireguard_config(output) ==
    IF output = None THEN None   \* None.find raises, caught: return None
    ELSE LET start_idx == Find(output, "S")
             end_idx == Find(output, "E")
         IN  IF start_idx # -1 /\ end_idx # -1
             THEN LET config_text == Strip(Slice(output, start_idx + 1, end_idx))
                  IN  IF Contains(config_text, "I") /\ Contains(config_text, "P")
                      THEN config_text
                      ELSE None
             ELSE None

\* str.replace(tok, repl): every occurrence of the token replaced by a text
RECURSIVE Replace(_, _, _)
Replace(s, tok, repl) ==
    IF s = <<>> THEN <<>>
    ELSE (IF Head(s) = tok THEN repl ELSE <<Head(s)>>) \o Replace(Tail(s), tok, repl)

\* str.startswith(tok)
StartsWith(s, tok) == Len(s) > 0 /\ s[1] = tok

\* ------------------------------------------------------------------------
\* VMProvisioner._get_sample_config
\* ------------------------------------------------------------------------
get_sample_config(public_ip) ==
    <<"I", "x", "w", "P", "x">> \o public_ip \o <<"K", "x", "w">>

\* ------------------------------------------------------------------------
\* Environment inputs of the provisioner
\* ------------------------------------------------------------------------
\* Outputs the remote "cat client.conf" command can deliver
CmdOutputs ==
    { <<"x">>,
      <<"S", "I", "P", "R", "K", "E">>,
      <<"S", "I", "P", "K", "E">>,
      <<"S", "x", "I", "P", "A", "K", "E">> }

\* Outcome of begin_run_command(...).result(timeout=60)
RunResults ==
    { [kind |-> "raise", msg |-> None], [kind |-> "empty", msg |-> None] }
    \cup { [kind |-> "msg", msg |-> m] : m \in CmdOutputs }

Address == <<"A">>

\* Outcome of public_ip_addresses.get(...).ip_address: the address, None
\* (address object without an address), or None after an exception
IpResults(exists) == IF exists THEN {Address, None} ELSE {None}

\* a scan that also takes a Failed VM for an active one
active_states_with_failed == {"Succeeded", "Creating", "Updating", "Failed"}

\* get_or_create_vm, line 272: the states in which a tagged VM is returned
ActiveStates == {"Succeeded", "Creating", "Updating"}

\* ------------------------------------------------------------------------
\* VMProvisioner._retrieve_wireguard_config_via_run_command
\* ------------------------------------------------------------------------
retrieve_wireguard_config_via_run_command(run) ==
    IF run.kind = "msg" THEN extract_wireguard_config(run.msg) ELSE None

\* ------------------------------------------------------------------------
\* Result records.  isExisting is "absent" when the returned dict has no
\* such key; prov, run and feed record the collaborator answers the call got,
\* progress is the fixed part of the progress text and progressState the
\* provisioning state formatted into it ("none" when the text has none),
\* attempted the deletions a delete_vm call has requested.
\* ------------------------------------------------------------------------
NoRun == [kind |-> "notrun", msg |-> None]

NoName == -1

Result(op, ok, opId, status, error, publicIp, confText, isExisting, prov, run) ==
    [op |-> op, ok |-> ok, opId |-> opId, status |-> status, error |-> error,
     publicIp |-> publicIp, confText |-> confText, isExisting |-> isExisting,
     prov |-> prov, run |-> run, feed |-> <<>>, progress |-> "none", progressState |-> "none",
     attempted |-> {}]

NoResult ==
    Result("none", FALSE, NoName, "none", "none", None, None, "absent", "none", NoRun)

\* ------------------------------------------------------------------------
\* VMProvisioner.get_vm_status, production branch.
\*   got  : outcome of virtual_machines.get: a provisioning state,
\*          or the code of the exception it raised (QueryErrors)
\*   ip   : outcome of the address lookup
\*   run  : outcome of the run command
\*   diag : vm.instance_view.statuses, the VM's status feed
\* ------------------------------------------------------------------------
\* one entry of the feed; message "" stands for an empty or missing message
StatusEntries ==
    { [level |-> "Info", message |-> "ProvisioningState/failed"],
      [level |-> "Error", message |-> ""],
      [level |-> "Error", message |-> "quota exceeded"] }

\* the feeds of up to n entries; the empty feed also stands for a VM whose
\* instance_view or statuses is None
RECURSIVE FeedsUpTo(_)
FeedsUpTo(n) ==
    IF n = 0 THEN {<<>>}
    ELSE LET shorter == FeedsUpTo(n - 1)
         IN  shorter \cup {Append(f, e) : f \in {g \in shorter : Len(g) = n - 1},
                                           e \in StatusEntries}

Feeds == FeedsUpTo(MaxFeed)

\* the loop of lines 578-582, from entry i on with error_msg so far
RECURSIVE ErrorMsgFrom(_, _, _)
ErrorMsgFrom(statuses, i, error_msg) ==
    IF i > Len(statuses) THEN error_msg
    ELSE ErrorMsgFrom(statuses, i + 1,
                      IF statuses[i].level = "Error" /\ statuses[i].message # ""
                      THEN statuses[i].message ELSE error_msg)

\* Exceptions virtual_machines.get can raise, by error code, and the words
\* of str(get_error) the code looks at
QueryErrors == {"ResourceNotFound", "ResourceGroupNotFound", "AuthorizationFailed", "Timeout"}

ErrorText(code) ==
    IF code = "ResourceNotFound" THEN <<"Resource", "NotFound">>
    ELSE IF code = "ResourceGroupNotFound" THEN <<"Resource", "Group", "NotFound">>
    ELSE <<code>>

\* a test that takes every exception for a missing resource
is_not_found_any(error_str) == TRUE

\* 'ResourceNotFound' in error_str or 'NotFound' in error_str (line 599)
is_not_found(error_str) ==
    \/ \E i \in 1..(Len(error_str) - 1) : error_str[i] = "Resource" /\ error_str[i + 1] = "NotFound"
    \/ Contains(error_str, "NotFound")

\* a message that ignores the feed
failed_error_generic(statuses) == "VM provisioning failed"

failed_error_message(statuses) == ErrorMsgFrom(statuses, 1, "VM provisioning failed")

FixConfig(conf_text, ip_address) ==
    LET replaced == Replace(conf_text, "R", ip_address)
    IN  IF Contains(replaced, "K") /\ ~Contains(replaced, ip_address[1])
        THEN Replace(replaced, "K", ip_address \o <<"K">>)
        ELSE replaced

\* only Creating counts as still in progress
in_progress_states_creating_only == {"Creating"}

\* get_vm_status, line 570: the states reported as InProgress
in_progress_states == {"Creating", "Updating"}

get_vm_status(vm_name, got, ip, run, diag) ==
    IF got \in QueryErrors /\ is_not_found(ErrorText(got)) THEN
        [Result("getStatus", TRUE, vm_name, "InProgress", "none", None, None, "absent", got, NoRun)
         EXCEPT !.progress = "VM creation in progress (resource not yet visible)"]
    ELSE IF got \in QueryErrors THEN
        Result("getStatus", FALSE, vm_name, "none", "Error querying VM status", None, None, "absent", got, NoRun)
    ELSE IF got = "Succeeded" THEN
        LET conf_text == retrieve_wireguard_config_via_run_command(run)
        IN  IF conf_text # None THEN
                IF Contains(conf_text, "R") \/ StartsWith(conf_text, "I") THEN
                    IF ip = None
                    THEN \* str.replace(..., None) raises TypeError, caught at line 596
                         Result("getStatus", FALSE, vm_name, "none", "Error querying VM status",
                                None, None, "absent", got, run)
                    ELSE Result("getStatus", TRUE, vm_name, "Succeeded", "none", ip,
                                FixConfig(conf_text, ip), "absent", got, run)
                ELSE Result("getStatus", TRUE, vm_name, "Succeeded", "none", ip,
                            conf_text, "absent", got, run)
            ELSE Result("getStatus", TRUE, vm_name, "Failed", "WireGuard setup failed", ip,
                        None, "absent", got, run)
    ELSE IF got \in in_progress_states THEN
        [Result("getStatus", TRUE, vm_name, "InProgress", "none", None, None, "absent", got, NoRun)
         EXCEPT !.progress = "VM provisioning state", !.progressState = got]
    ELSE IF got = "Failed" THEN
        [Result("getStatus", TRUE, vm_name, "Failed", failed_error_message(diag),
                None, None, "absent", got, NoRun) EXCEPT !.feed = diag]
    ELSE [Result("getStatus", TRUE, vm_name, got, "none", None, None, "absent", got, NoRun)
          EXCEPT !.progress = "VM state", !.progressState = got]

\* ------------------------------------------------------------------------
\* VMProvisioner.get_or_create_vm, the scan of the listing (lines 265-303).
\* listing is the sequence of listed VMs, each [name, tagged, state].
\* The result is the index of the VM the loop returns, 0 when it falls
\* through to create_vm.
\* ------------------------------------------------------------------------
RECURSIVE ScanFrom(_, _)
ScanFrom(listing, i) ==
    IF i > Len(listing) THEN 0
    ELSE IF listing[i].tagged /\ listing[i].state \in ActiveStates THEN i
    ELSE ScanFrom(listing, i + 1)

ScanListing(listing) == ScanFrom(listing, 1)

\* a reuse branch that sends the run command to any active VM with an address
ExistingVmAlwaysRun(vm, ip, run) ==
    LET conf_text ==
            IF ip # None
            THEN LET retrieved == retrieve_wireguard_config_via_run_command(run)
                 IN  IF retrieved = None THEN get_sample_config(ip) ELSE retrieved
            ELSE None
    IN  Result("getOrCreate", TRUE, vm.name, vm.state, "none", ip, conf_text, "true",
               vm.state, IF ip # None THEN run ELSE NoRun)

\* the dict returned for an existing VM (lines 274-303)
ExistingVm(vm, ip, run) ==
    LET conf_text ==
            IF vm.state = "Succeeded" /\ ip # None
            THEN LET retrieved == retrieve_wireguard_config_via_run_command(run)
                 IN  IF retrieved = None THEN get_sample_config(ip) ELSE retrieved
            ELSE None
    IN  Result("getOrCreate", TRUE, vm.name, vm.state, "none", ip, conf_text, "true",
               vm.state, IF vm.state = "Succeeded" /\ ip # None THEN run ELSE NoRun)

\* ------------------------------------------------------------------------
\* State
\* ------------------------------------------------------------------------
VARIABLES
    exIn, exOut, exDone,  \* the latest call of _extract_wireguard_config
    exHist,               \* its first call: input, result, calls so far, other inputs since
    now,                  \* int(time.time())
    vmState,              \* provider: provisioning state of the VM wg-<n>
    vmListed,             \* provider: the VM is returned by list and get
    pip,                  \* provider: public address object wg-<n>-ip exists
    nic,                  \* provider: network interface wg-<n>-nic exists
    sharedNet,            \* provider: shared NSG and VNet exist
    vmTagged,             \* provider: the VM wg-<n> carries the tag purpose = wireguard-vpn
    pc,                   \* where each caller of get_or_create_vm stands
    name,                 \* vm_name of each caller inside create_vm
    calls,                \* get_or_create_vm calls begun
    lastRet,              \* what the last completed call returned
    lastObs,              \* what the provider held when that call ran
    atScan,               \* per caller: what the provider held and listed at its scan
    overlapped,           \* two get_or_create_vm calls overlapped in time
    steps,                \* per caller: the provider calls of its create_vm so far
    tornDown,             \* delete_vm was called on the provider
    dryOps,               \* _dry_run_operations: start_time per operation id
    issued,               \* operation ids returned by get_or_create_vm / create_vm
    dryLast,              \* dry run: the status last returned for each operation id
    dryAt,                \* dry run: clock reading of the last status query
    store,                \* StatusStore._store: the job ledger
    tpc,                  \* where each job's background thread stands
    attempt,              \* get_status calls _poll_upstream_status has made per job
    lastHttp,             \* the last HTTP response sent
    jlog,                 \* per job: what its background thread asked and wrote last, and so far
    lk,                   \* per caller of a StatusStore method: where it stands inside the method
    gss,                  \* get_status_store: _store_instance, _store_lock and each caller's position
    cloud,                \* durable backend: the objects the provider holds per VM name
    tdRet,                \* durable backend: what the last teardown_real_vm call returned
    wf                    \* durable backend: the orchestration instances

exVars == <<exIn, exOut, exDone, exHist>>
provVars == <<vmState, vmListed, pip, nic, sharedNet, vmTagged>>
callVars == <<pc, name, calls, atScan, overlapped, steps>>
dryVars == <<dryOps, issued, dryLast, dryAt>>
jobVars == <<store, tpc, attempt, lastHttp, jlog, lk, gss>>
wfVars == <<cloud, tdRet, wf>>
vars == <<exIn, exOut, exDone, exHist, now, vmState, vmListed, pip, nic, sharedNet, vmTagged,
          pc, name, calls, lastRet, lastObs, atScan,
          overlapped, steps, tornDown, dryOps, issued, dryLast, dryAt, store, tpc, attempt, lastHttp, jlog, lk, gss,
          cloud, tdRet, wf>>

Names == 0..MaxTime
Procs == {1, 2}

Obs(listOk, first, held, created, ip) ==
    [listOk |-> listOk, first |-> first, held |-> held,
     created |-> created, ip |-> ip]

NoObs == Obs(FALSE, NoName, NoName, FALSE, None)

\* HTTP responses: handler, status code, and the JSON body's fields
\* ("none" for a field the body does not carry); confText is result.confText
Http(handler, code, opId, status, result, error) ==
    [handler |-> handler, code |-> code, opId |-> opId, status |-> status,
     result |-> result, error |-> error, confText |-> None]

NoHttp == Http("none", 0, NoName, "none", "none", "none")

NoScan == [held |-> NoName, first |-> NoName]

\* virtual_machines.list(resource_group): the listed VMs in name order
RECURSIVE ListFrom(_)
ListFrom(n) ==
    IF n > MaxTime THEN <<>>
    ELSE (IF vmState[n] # "Absent" /\ vmListed[n]
          THEN <<[name |-> n, tagged |-> vmTagged[n], state |-> vmState[n]]>>
          ELSE <<>>) \o ListFrom(n + 1)

Listing == ListFrom(0)

\* the tagged VMs the provider lists in an active state
ListedActive ==
    {n \in Names : vmListed[n] /\ vmTagged[n] /\ vmState[n] \in {"Creating", "Updating", "Succeeded"}}

FirstListedActive ==
    IF ListedActive = {} THEN NoName
    ELSE CHOOSE n \in ListedActive : \A m \in ListedActive : n <= m

\* first VM the provider holds as Creating or Succeeded, listed or not
FirstHeld ==
    LET held == {n \in Names : vmState[n] \in {"Creating", "Succeeded"}}
    IN  IF held = {} THEN NoName ELSE CHOOSE n \in held : \A m \in held : n <= m

\* the VMs the provider holds in an active state, listed or not
Active == {n \in Names : vmState[n] \in {"Creating", "Updating", "Succeeded"}}

NoHist == [in |-> None, out |-> None, n |-> 0, between |-> FALSE]

InitIdleExtract ==
    /\ exIn = None
    /\ exOut = None
    /\ exDone = FALSE
    /\ exHist = NoHist

InitIdleProvisioner ==
    /\ now = 0
    /\ vmState = [n \in Names |-> "Absent"]
    /\ vmListed = [n \in Names |-> FALSE]
    /\ pip = [n \in Names |-> FALSE]
    /\ nic = [n \in Names |-> FALSE]
    /\ sharedNet = FALSE
    /\ vmTagged = [n \in Names |-> TRUE]
    /\ pc = [p \in Procs |-> "idle"]
    /\ name = [p \in Procs |-> NoName]
    /\ calls = 0
    /\ lastRet = NoResult
    /\ lastObs = NoObs
    /\ atScan = [p \in Procs |-> NoScan]
    /\ overlapped = FALSE
    /\ steps = [p \in Procs |-> <<>>]
    /\ tornDown = FALSE

InitIdleDryRun ==
    /\ dryOps = [id \in {} |-> 0]
    /\ issued = {}
    /\ dryLast = [id \in {} |-> "none"]
    /\ dryAt = 0

\* what provider.get_status returned: (success, error_msg, status_data) with
\* status the reply's "status" and val the field of the reply that the loop
\* reads for that status ("absent" when the reply has no such key)
NoReply == [ok |-> TRUE, status |-> "none", val |-> "none"]

\* a job's background thread so far: its last get_status reply, the ledger
\* write it made last, the statuses written to the job's record in order,
\* whether it queried upstream after a terminal write, and whether one of
\* its writes found no record
\* a StatusStore method call: pc is "idle" outside the method, "locked"
\* once inside `with self._lock`, "stamp" after job.update(updates); before
\* is the ledger as the caller found it on entering the lock
\* `_store_instance = None` (line 103); a caller that has not returned yet
NoInstance == 0
NotCalled == -1

NoCall == [pc |-> "idle", id |-> 0, updates |-> [progress |-> "none"], before |-> [j \in {} |-> 0]]

NoLog ==
    [reply |-> NoReply, write |-> [status |-> "none", val |-> "none"], statuses |-> <<>>,
     queriedAfterTerminal |-> FALSE, missed |-> FALSE]

InitIdleJobs ==
    /\ store = [j \in {} |-> 0]
    /\ tpc = [j \in 1..MaxJobs |-> "none"]
    /\ attempt = [j \in 1..MaxJobs |-> 0]
    /\ lastHttp = NoHttp
    /\ jlog = [j \in 1..MaxJobs |-> NoLog]
    /\ lk = [p \in Procs |-> NoCall]
    /\ gss = [instance |-> NoInstance, lock |-> 0, constructed |-> 0,
              pc |-> [p \in Procs |-> "idle"], ret |-> [p \in Procs |-> NotCalled]]

\* durable backend: orchestration instances are numbered 1..MaxInst; the VM
\* name "wg-vm-<t>" is 300 + t and "wireguard-<instance_id[:8]>" of the
\* instance i is 400 + i (instance id prefixes are taken to differ)
Inst == 1..MaxInst

WgVm(t) == 300 + t

Wireguard(i) == 400 + i

\* an instance: pc is where its orchestrator function stands; made, timerFired,
\* destroyCalls, destroyName and mgr record what its activities did
NoWf ==
    [kind |-> "none", pc |-> "none", duration |-> "number", vmName |-> NoName,
     createName |-> NoName, made |-> {}, createOk |-> FALSE, timerFired |-> FALSE,
     destroyCalls |-> 0, destroyName |-> NoName, mgr |-> "none"]

InitIdleWf ==
    /\ cloud = [n \in {WgVm(t) : t \in 0..MaxTime} \cup {Wireguard(i) : i \in Inst} |-> {}]
    /\ tdRet = [status |-> "none", vmName |-> NoName, deleted |-> {}, failed |-> {},
                ran |-> FALSE, out |-> [r \in {} |-> "none"]]
    /\ wf = [i \in Inst |-> NoWf]

\* ------------------------------------------------------------------------
\* Production provisioner (DRY_RUN unset)
\* ------------------------------------------------------------------------
Init ==
    /\ InitIdleExtract
    /\ InitIdleProvisioner
    /\ InitIdleDryRun
    /\ InitIdleJobs
    /\ InitIdleWf

\* get_or_create_vm takes no lock: a caller enters whenever it is idle
ScanAdmitsLocked(p) == pc[p] = "idle" /\ \A q \in Procs : pc[q] = "idle"

ScanAdmits(p) == pc[p] = "idle"

\* get_or_create_vm up to the end of the scan (lines 260-307)
GetOrCreateScan(p) ==
    /\ ScanAdmits(p)
    /\ calls < MaxCalls
    /\ calls' = calls + 1
    /\ overlapped' = (overlapped \/ \E q \in Procs \ {p} : pc[q] # "idle")
    /\ UNCHANGED <<exVars, wfVars, dryVars, jobVars, now, provVars, name, steps, tornDown>>
    /\ \/ \* virtual_machines.list raises: caught at line 309
          /\ lastRet' = Result("getOrCreate", FALSE, NoName, "none",
                               "Failed to get or create VM", None, None, "absent", "none", NoRun)
          /\ lastObs' = Obs(FALSE, FirstListedActive, FirstHeld, FALSE, None)
          /\ UNCHANGED <<pc, atScan>>
       \/ \* an active tagged VM is listed: return it
          /\ ScanListing(Listing) # 0
          /\ LET vm == Listing[ScanListing(Listing)]
             IN  \E ip \in IpResults(pip[vm.name]) : \E run \in RunResults :
                    /\ lastRet' = ExistingVm(vm, ip, run)
                    /\ lastObs' = Obs(TRUE, FirstListedActive, FirstHeld, FALSE, ip)
          /\ UNCHANGED <<pc, atScan>>
       \/ \* none: go on to create_vm
          /\ ScanListing(Listing) = 0
          /\ pc' = [pc EXCEPT ![p] = "net"]
          /\ atScan' = [atScan EXCEPT ![p] = [held |-> FirstHeld, first |-> FirstListedActive]]
          /\ UNCHANGED <<lastRet, lastObs>>

\* create_vm returns (False, "Failed to start VM creation: ...", None)
CreateFails(p, msg) ==
    /\ lastRet' = Result("getOrCreate", FALSE, NoName, "none", msg, None, None, "absent", "none", NoRun)
    /\ lastObs' = Obs(TRUE, atScan[p].first, atScan[p].held, FALSE, None)
    /\ pc' = [pc EXCEPT ![p] = "idle"]
    /\ name' = [name EXCEPT ![p] = NoName]
    /\ atScan' = [atScan EXCEPT ![p] = NoScan]
    /\ steps' = [steps EXCEPT ![p] = <<>>]

\* NSG and VNet both requested before either is waited for
shared_network_steps_unawaited == <<"nsg.req", "vnet.req", "nsg.done", "vnet.done">>

\* _get_or_create_shared_network_resources, the provider calls it makes when
\* neither shared object exists: each begin_create_or_update is followed by
\* its result() (lines 190-195, 221-226)
shared_network_steps == <<"nsg.req", "nsg.done", "vnet.req", "vnet.done">>

\* create_vm: name the VM, get or create the shared NSG and VNet (lines 321-348)
CreateNet(p) ==
    /\ pc[p] = "net"
    /\ UNCHANGED <<exVars, wfVars, dryVars, jobVars, now, vmState, vmListed, pip, nic, vmTagged,
                   calls, overlapped, tornDown>>
    /\ \/ /\ CreateFails(p, "Failed to start VM creation")
          /\ UNCHANGED sharedNet
       \/ /\ sharedNet' = TRUE
          /\ name' = [name EXCEPT ![p] = now]
          /\ pc' = [pc EXCEPT ![p] = "ip"]
          /\ steps' = [steps EXCEPT ![p] = IF sharedNet THEN <<>> ELSE shared_network_steps]
          /\ UNCHANGED <<lastRet, lastObs, atScan>>

\* create_vm: create the public address and wait for it (lines 350-367)
CreateIp(p) ==
    /\ pc[p] = "ip"
    /\ UNCHANGED <<exVars, wfVars, dryVars, jobVars, now, vmState, vmListed, nic, sharedNet, vmTagged,
                   calls, overlapped, tornDown>>
    /\ \/ /\ CreateFails(p, "Failed to start VM creation")
          /\ UNCHANGED pip
       \/ /\ pip' = [pip EXCEPT ![name[p]] = TRUE]
          /\ pc' = [pc EXCEPT ![p] = "nic"]
          /\ steps' = [steps EXCEPT ![p] = @ \o <<"ip.req", "ip.done">>]
          /\ UNCHANGED <<lastRet, lastObs, name, atScan>>

\* create_vm: create the network interface and wait for it (lines 369-386)
CreateNic(p) ==
    /\ pc[p] = "nic"
    /\ UNCHANGED <<exVars, wfVars, dryVars, jobVars, now, vmState, vmListed, pip, sharedNet, vmTagged,
                   calls, overlapped, tornDown>>
    /\ \/ /\ CreateFails(p, "Failed to start VM creation")
          /\ UNCHANGED nic
       \/ /\ nic' = [nic EXCEPT ![name[p]] = TRUE]
          /\ pc' = [pc EXCEPT ![p] = "vm"]
          /\ steps' = [steps EXCEPT ![p] = @ \o <<"nic.req", "nic.done">>]
          /\ UNCHANGED <<lastRet, lastObs, name, atScan>>

\* create_vm: request the VM and return without waiting (lines 388-488)
CreateVm(p) ==
    /\ pc[p] = "vm"
    /\ UNCHANGED <<exVars, wfVars, dryVars, jobVars, now, pip, nic, sharedNet, calls, overlapped, tornDown>>
    /\ \/ \* neither SSH_PUBLIC_KEY nor AZURE_ADMIN_PASSWORD is set (line 399)
          /\ CreateFails(p, "Missing SSH_PUBLIC_KEY or AZURE_ADMIN_PASSWORD")
          /\ UNCHANGED <<vmState, vmListed, vmTagged>>
       \/ \* begin_create_or_update raises
          /\ CreateFails(p, "Failed to start VM creation")
          /\ UNCHANGED <<vmState, vmListed, vmTagged>>
       \/ \* the provider accepts the request; the VM may not be listed yet
          /\ \E listedNow \in BOOLEAN :
                /\ vmState' = [vmState EXCEPT ![name[p]] =
                                  IF vmState[name[p]] = "Absent" THEN "Creating" ELSE "Updating"]
                /\ vmListed' = [vmListed EXCEPT ![name[p]] =
                                  IF vmState[name[p]] = "Absent" THEN listedNow ELSE @]
          /\ vmTagged' = [vmTagged EXCEPT ![name[p]] = TRUE]
          /\ lastRet' = Result("getOrCreate", TRUE, name[p], "InProgress", "none",
                               None, None, "absent", "none", NoRun)
          /\ lastObs' = Obs(TRUE, atScan[p].first, atScan[p].held, TRUE, None)
          /\ pc' = [pc EXCEPT ![p] = "idle"]
          /\ name' = [name EXCEPT ![p] = NoName]
          /\ atScan' = [atScan EXCEPT ![p] = NoScan]
          /\ steps' = [steps EXCEPT ![p] = <<>>]

\* a lookup that answers from what the last get_or_create_vm call returned
\* for the VM instead of asking the provider
VmLookupRemembered(id) ==
    IF lastRet.op = "getOrCreate" /\ lastRet.ok /\ lastRet.opId = id
    THEN {"Creating"}
    ELSE (IF id \in Names /\ vmState[id] # "Absent" /\ vmListed[id]
          THEN {vmState[id]} ELSE {"ResourceNotFound", "ResourceGroupNotFound"})
         \cup {"AuthorizationFailed", "Timeout"}

\* virtual_machines.get(resource_group, vm_name): the provisioning state,
\* a not-found error, or some other error
VmLookup(id) ==
    (IF id \in Names /\ vmState[id] # "Absent" /\ vmListed[id]
     THEN {vmState[id]} ELSE {"ResourceNotFound", "ResourceGroupNotFound"})
    \cup {"AuthorizationFailed", "Timeout"}

\* get_vm_status (lines 515-613); NoName is a name no VM was ever given
GetVmStatus(id) ==
    /\ UNCHANGED <<exVars, wfVars, dryVars, jobVars, now, provVars, callVars, tornDown>>
    /\ \E got \in VmLookup(id) :
           \E ip \in (IF got = "Succeeded" THEN IpResults(pip[id]) ELSE {None}) :
           \E run \in (IF got = "Succeeded" THEN RunResults ELSE {NoRun}) :
           \E diag \in (IF got = "Failed" THEN Feeds ELSE {<<>>}) :
              /\ lastRet' = get_vm_status(id, got, ip, run, diag)
              /\ lastObs' = Obs(TRUE, FirstListedActive, FirstHeld, FALSE, ip)

\* delete_vm (lines 624-662)
DeleteVm(n) ==
    /\ vmState[n] # "Absent" \/ pip[n] \/ nic[n]
    /\ tornDown' = TRUE
    /\ lastObs' = NoObs
    /\ UNCHANGED <<exVars, wfVars, dryVars, jobVars, now, sharedNet, vmTagged, callVars>>
    /\ \/ \* begin_delete of the VM raises: nothing else is attempted
          /\ lastRet' = [Result("delete", FALSE, n, "none", "Failed to delete VM",
                                None, None, "absent", "none", NoRun)
                          EXCEPT !.attempted = {"vm"}]
          /\ UNCHANGED <<vmState, vmListed, pip, nic>>
       \/ \* VM deleted; NIC and address deletions may each fail (logged only)
          /\ lastRet' = [Result("delete", TRUE, n, "none", "none", None, None, "absent", "none", NoRun)
                          EXCEPT !.attempted = {"vm", "nic", "ip"}]
          /\ vmState' = [vmState EXCEPT ![n] = "Absent"]
          /\ vmListed' = [vmListed EXCEPT ![n] = FALSE]
          /\ \E nicGone \in BOOLEAN : nic' = [nic EXCEPT ![n] = IF nicGone THEN FALSE ELSE @]
          /\ \E ipGone \in BOOLEAN : pip' = [pip EXCEPT ![n] = IF ipGone THEN FALSE ELSE @]

\* the provider starts to list a VM it accepted
ProviderLists(n) ==
    /\ vmState[n] # "Absent" /\ ~vmListed[n]
    /\ vmListed' = [vmListed EXCEPT ![n] = TRUE]
    /\ UNCHANGED <<exVars, wfVars, dryVars, jobVars, now, vmState, pip, nic, sharedNet, vmTagged,
                   callVars, lastRet, lastObs, tornDown>>

\* the provider finishes provisioning, one way or the other
ProviderFinishes(n) ==
    /\ vmState[n] \in {"Creating", "Updating"} /\ vmListed[n]
    /\ \E outcome \in {"Succeeded", "Failed"} : vmState' = [vmState EXCEPT ![n] = outcome]
    /\ UNCHANGED <<exVars, wfVars, dryVars, jobVars, now, vmListed, pip, nic, sharedNet, vmTagged,
                   callVars, lastRet, lastObs, tornDown>>

Tick ==
    /\ now < MaxTime
    /\ now' = now + 1
    /\ UNCHANGED <<exVars, wfVars, dryVars, jobVars, provVars, callVars, lastRet, lastObs,
                   tornDown>>

\* delete_vm: begin_delete is accepted and result() waits; the provider
\* reports the VM as Deleting meanwhile (lines 628-631)
DeleteVmBegin(n) ==
    /\ vmState[n] \notin {"Absent", "Deleting"}
    /\ vmState' = [vmState EXCEPT ![n] = "Deleting"]
    /\ tornDown' = TRUE
    /\ UNCHANGED <<exVars, wfVars, dryVars, jobVars, now, vmListed, pip, nic, sharedNet, vmTagged,
                   callVars, lastRet, lastObs>>

\* delete_vm: result() returns or raises, and the rest of the call
DeleteVmFinish(n) ==
    /\ vmState[n] = "Deleting"
    /\ DeleteVm(n)

\* Concurrent callers of get_or_create_vm, teardown, and the provider
Next ==
    \/ \E p \in Procs : GetOrCreateScan(p)
    \/ \E p \in Procs : CreateNet(p)
    \/ \E p \in Procs : CreateIp(p)
    \/ \E p \in Procs : CreateNic(p)
    \/ \E p \in Procs : CreateVm(p)
    \/ \E n \in Names : DeleteVm(n)
    \/ \E n \in Names : ProviderLists(n)
    \/ \E n \in Names : ProviderFinishes(n)
    \/ Tick

Spec == Init /\ [][Next]_vars

\* One client that starts and polls get_vm_status while the provider works
NextReuse ==
    \/ GetOrCreateScan(1)
    \/ CreateNet(1)
    \/ CreateIp(1)
    \/ CreateNic(1)
    \/ CreateVm(1)
    \/ \E id \in Names : GetVmStatus(id)
    \/ \E n \in Names : ProviderLists(n)
    \/ \E n \in Names : ProviderFinishes(n)

SpecReuse == Init /\ [][NextReuse]_vars

\* One client that starts, polls get_vm_status and tears down
NextStatus ==
    \/ GetOrCreateScan(1)
    \/ CreateNet(1)
    \/ CreateIp(1)
    \/ CreateNic(1)
    \/ CreateVm(1)
    \/ \E id \in Names \cup {NoName} : GetVmStatus(id)
    \/ \E n \in Names : DeleteVm(n)
    \/ \E n \in Names : ProviderLists(n)
    \/ \E n \in Names : ProviderFinishes(n)
    \/ Tick

SpecStatus == Init /\ [][NextStatus]_vars

\* ------------------------------------------------------------------------
\* Dry run (DRY_RUN=true).  Operation ids are strings; they are numbered:
\*   "dry-run-<t>" is 100 + t, "dry-run-wg-<t>" is 200 + t, and Bogus is an
\*   id that no call ever returned.
\* ------------------------------------------------------------------------
DryId(t) == 100 + t
DryWgId(t) == 200 + t
Bogus == 999

DryAddress == <<"D">>

\* get_dry_run_status: the operations table after the call
DryOpsAfter(operation_id) ==
    IF operation_id \in DOMAIN dryOps THEN dryOps
    ELSE [id \in DOMAIN dryOps \cup {operation_id} |->
            IF id = operation_id THEN now ELSE dryOps[id]]

\* a timeline without the Running phase
dry_run_status_two_phase(operation_id) ==
    IF now - DryOpsAfter(operation_id)[operation_id] < 3 THEN "Creating" ELSE "Succeeded"

\* get_dry_run_status: the status it returns
get_dry_run_status(operation_id) ==
    LET elapsed == now - DryOpsAfter(operation_id)[operation_id]
    IN  IF elapsed < 3 THEN "Creating"
        ELSE IF elapsed < 8 THEN "Running"
        ELSE "Succeeded"

InitDry ==
    /\ InitIdleExtract
    /\ InitIdleProvisioner
    /\ InitIdleDryRun
    /\ InitIdleJobs
    /\ InitIdleWf

\* get_or_create_vm, dry-run branch (lines 245-258)
DryGetOrCreateVm ==
    /\ DryId(now) \in issued \/ Cardinality(issued) < MaxDryOps
    /\ dryOps' = DryOpsAfter(DryId(now))
    /\ issued' = issued \cup {DryId(now)}
    /\ UNCHANGED <<dryLast, dryAt>>
    /\ lastRet' = Result("getOrCreate", TRUE, DryId(now), "Creating", "none",
                         None, None, "false", "none", NoRun)
    /\ UNCHANGED <<exVars, wfVars, jobVars, now, provVars, callVars, lastObs, tornDown>>

\* create_vm, dry-run branch (lines 329-342)
DryCreateVm ==
    /\ DryWgId(now) \in issued \/ Cardinality(issued) < MaxDryOps
    /\ dryOps' = DryOpsAfter(DryWgId(now))
    /\ issued' = issued \cup {DryWgId(now)}
    /\ UNCHANGED <<dryLast, dryAt>>
    /\ lastRet' = Result("create", TRUE, DryWgId(now), "Creating", "none",
                         None, None, "false", "none", NoRun)
    /\ UNCHANGED <<exVars, wfVars, jobVars, now, provVars, callVars, lastObs, tornDown>>

\* get_vm_status, dry-run branch (lines 496-513)
DryGetVmStatus(vm_name) ==
    /\ dryOps' = DryOpsAfter(vm_name)
    /\ LET status == get_dry_run_status(vm_name)
       IN  /\ lastRet' =
                 IF status = "Succeeded"
                 THEN Result("getStatus", TRUE, vm_name, status, "none", DryAddress,
                             get_sample_config(DryAddress), "absent", "none", NoRun)
                 ELSE Result("getStatus", TRUE, vm_name, status, "none", None, None,
                             "absent", "none", NoRun)
           /\ dryLast' = [id \in DOMAIN dryLast \cup {vm_name} |->
                             IF id = vm_name THEN status ELSE dryLast[id]]
           /\ dryAt' = now
    /\ UNCHANGED <<exVars, wfVars, jobVars, now, provVars, callVars, lastObs, tornDown, issued>>

\* delete_vm, dry-run branch (lines 620-622)
DryDeleteVm(vm_name) ==
    /\ lastRet' = Result("delete", TRUE, vm_name, "none", "none", None, None,
                         "absent", "none", NoRun)
    /\ UNCHANGED <<exVars, wfVars, dryVars, jobVars, now, provVars, callVars, lastObs, tornDown>>

TickDry ==
    /\ now < MaxDryTime
    /\ now' = now + 1
    /\ UNCHANGED <<exVars, wfVars, dryVars, jobVars, provVars, callVars, lastRet, lastObs, tornDown>>

NextDry ==
    \/ DryGetOrCreateVm
    \/ DryCreateVm
    \/ \E id \in issued \cup {Bogus} : DryGetVmStatus(id)
    \/ \E id \in issued \cup {Bogus} : DryDeleteVm(id)
    \/ TickDry

SpecDry == InitDry /\ [][NextDry]_vars

\* ------------------------------------------------------------------------
\* start_job / job_status with the job ledger (DRY_RUN unset).
\* str(uuid.uuid4()) of the j-th job is numbered 1000 + j.
\* ------------------------------------------------------------------------
Jobs == 1..MaxJobs

Uuid(j) == 1000 + j

NoId == -2

Principals == {"missing", "undecodable", "noEmail", "notInvited", "invited"}

\* shared/auth.py validate_user: (is_valid, error_message)
validate_user(principal) ==
    IF principal = "missing" THEN [valid |-> FALSE, error |-> "Authentication required"]
    ELSE IF principal = "undecodable" THEN [valid |-> FALSE, error |-> "Authentication error"]
    ELSE IF principal = "noEmail" THEN [valid |-> FALSE, error |-> "User email not found"]
    ELSE IF principal = "notInvited" THEN [valid |-> FALSE, error |-> "User is not an invited user"]
    ELSE [valid |-> TRUE, error |-> "none"]

\* a start handler whose insert has not happened when the thread runs
create_job_not_yet(st, operation_id) == st

\* StatusStore.create_job
create_job(st, operation_id) ==
    [id \in DOMAIN st \cup {operation_id} |->
        IF id = operation_id
        THEN [status |-> "pending", createdAt |-> now, lastUpdatedAt |-> now,
              progress |-> "Job created", result |-> "none", error |-> "none",
              upstreamId |-> "absent"]
        ELSE st[id]]

\* StatusStore.update_job(operation_id, **updates)
update_job(st, operation_id, updates) ==
    IF operation_id \notin DOMAIN st THEN st
    ELSE [st EXCEPT ![operation_id] = [lastUpdatedAt |-> now] @@ updates @@ st[operation_id]]

set_running(st, operation_id, progress) ==
    update_job(st, operation_id, [status |-> "running", progress |-> progress])

set_completed(st, operation_id, result) ==
    update_job(st, operation_id,
               [status |-> "completed", progress |-> "Completed successfully", result |-> result])

set_failed(st, operation_id, error) ==
    update_job(st, operation_id, [status |-> "failed", progress |-> "Failed", error |-> error])

InitJob ==
    /\ InitIdleExtract
    /\ InitIdleProvisioner
    /\ InitIdleDryRun
    /\ InitIdleJobs
    /\ InitIdleWf

\* the log of job j after its thread got reply (NoReply when the step asks
\* nothing) and made the ledger write
Logged(j, reply, write) ==
    LET terminated == \E k \in 1..Len(jlog[j].statuses) :
                          jlog[j].statuses[k] \in {"completed", "failed"}
    IN  [jlog EXCEPT ![j] =
            [reply |-> reply, write |-> write,
             statuses |-> IF write.status = "none" THEN @.statuses
                          ELSE Append(@.statuses, write.status),
             queriedAfterTerminal |-> @.queriedAfterTerminal \/ (reply # NoReply /\ terminated),
             missed |-> @.missed \/ j \notin DOMAIN store]]

\* start_job.main
StartJob(method, principal) ==
    /\ UNCHANGED <<exVars, wfVars, dryVars, now, provVars, callVars, lastRet, lastObs, tornDown, lk, gss, attempt>>
    /\ \/ /\ method = "OPTIONS"
          /\ lastHttp' = Http("start_job", 204, NoId, "none", "none", "none")
          /\ UNCHANGED <<store, tpc, jlog>>
       \/ /\ method = "POST"
          /\ ~validate_user(principal).valid
          /\ lastHttp' = Http("start_job", 403, NoId, "none", "none", validate_user(principal).error)
          /\ UNCHANGED <<store, tpc, jlog>>
       \/ /\ method = "POST"
          /\ validate_user(principal).valid
          /\ Cardinality(DOMAIN store) < MaxJobs
          /\ LET j == Cardinality(DOMAIN store) + 1
             IN  /\ store' = create_job(store, j)
                 /\ jlog' = [jlog EXCEPT ![j].statuses = <<"pending">>]
                 /\ tpc' = [tpc EXCEPT ![j] = "started"]
                 /\ lastHttp' = Http("start_job", 202, Uuid(j), "accepted", "none", "none")

\* _process_job_async: store.set_running (line 35)
ThreadSetRunning(j) ==
    /\ tpc[j] = "started"
    /\ store' = set_running(store, j, "Contacting upstream provider...")
    /\ jlog' = Logged(j, NoReply, [status |-> "running", val |-> "none"])
    /\ tpc' = [tpc EXCEPT ![j] = "provision"]
    /\ UNCHANGED <<exVars, wfVars, dryVars, now, provVars, callVars, lastRet, lastObs, tornDown, lk, gss,
                   attempt, lastHttp>>

\* _process_job_async: provider.start_provisioning and what follows (lines 39-64)
ThreadStartProvisioning(j) ==
    /\ tpc[j] = "provision"
    /\ UNCHANGED <<exVars, wfVars, dryVars, now, provVars, callVars, lastRet, lastObs, tornDown, lk, gss,
                   attempt, lastHttp>>
    /\ \/ \* not success
          /\ \E err \in {"Upstream API error", "Unknown error from upstream"} :
                /\ store' = set_failed(store, j, err)
                /\ jlog' = Logged(j, NoReply, [status |-> "failed", val |-> err])
          /\ tpc' = [tpc EXCEPT ![j] = "done"]
       \/ \* success, upstream_data carries an upstream_id
          /\ store' = update_job(store, j,
                         [upstreamId |-> "id", progress |-> "Provisioning VM and WireGuard tunnel..."])
          /\ jlog' = Logged(j, NoReply,
                            [status |-> "none", val |-> "Provisioning VM and WireGuard tunnel..."])
          /\ tpc' = [tpc EXCEPT ![j] = "poll"]
       \/ \* success, no upstream_id: completed with the data at hand
          /\ store' = set_completed(
                         update_job(store, j,
                             [upstreamId |-> "none", progress |-> "Provisioning VM and WireGuard tunnel..."]),
                         j, "upstream_data")
          /\ jlog' = Logged(j, NoReply, [status |-> "completed", val |-> "upstream_data"])
          /\ tpc' = [tpc EXCEPT ![j] = "done"]
       \/ \* upstream_data is no dict: AttributeError, caught at line 62
          /\ store' = set_failed(store, j, "Internal error")
          /\ jlog' = Logged(j, NoReply, [status |-> "failed", val |-> "Internal error"])
          /\ tpc' = [tpc EXCEPT ![j] = "done"]

\* the replies of provider.get_status (upstream.py lines 130-157): a failed
\* query with its message, or the upstream's JSON; "malformed" is a reply
\* that is no dict or whose status is no string
UpstreamReplies ==
    {[ok |-> FALSE, status |-> "none", val |-> "Job not found on upstream"],
     [ok |-> TRUE, status |-> "completed", val |-> "upstream_result"],
     [ok |-> TRUE, status |-> "COMPLETED", val |-> "absent"],
     [ok |-> TRUE, status |-> "failed", val |-> "quota exceeded"],
     [ok |-> TRUE, status |-> "failed", val |-> "absent"],
     [ok |-> TRUE, status |-> "running", val |-> "Installing WireGuard"],
     [ok |-> TRUE, status |-> "absent", val |-> "absent"],
     [ok |-> TRUE, status |-> "malformed", val |-> "absent"]}

\* a loop that goes on polling after a 'failed' reply
poll_upstream_write_failed_as_running(reply) ==
    LET lower == IF reply.status = "COMPLETED" THEN "completed" ELSE reply.status
    IN  IF ~reply.ok THEN [status |-> "failed", val |-> reply.val]
        ELSE IF lower = "malformed" THEN [status |-> "failed", val |-> "Internal error"]
        ELSE IF lower = "completed"
        THEN [status |-> "completed", val |-> IF reply.val = "absent" THEN "{}" ELSE reply.val]
        ELSE [status |-> "none", val |-> IF reply.val = "absent" THEN "Processing..." ELSE reply.val]

\* _poll_upstream_status, the ledger write one reply leads to (lines 79-99):
\* status "none" is update_job(progress=...); .lower() on the status folds
\* the case; a malformed reply raises and is caught at line 62
poll_upstream_write(reply) ==
    LET lower == IF reply.status = "COMPLETED" THEN "completed" ELSE reply.status
    IN  IF ~reply.ok THEN [status |-> "failed", val |-> reply.val]
        ELSE IF lower = "malformed" THEN [status |-> "failed", val |-> "Internal error"]
        ELSE IF lower = "completed"
        THEN [status |-> "completed", val |-> IF reply.val = "absent" THEN "{}" ELSE reply.val]
        ELSE IF lower = "failed"
        THEN [status |-> "failed", val |-> IF reply.val = "absent" THEN "Upstream job failed" ELSE reply.val]
        ELSE [status |-> "none", val |-> IF reply.val = "absent" THEN "Processing..." ELSE reply.val]

\* a loop that lacks the return after set_failed
poll_continues_after_failure(write) == write.status # "completed"

\* _poll_upstream_status: the loop goes on after update_job(progress=...)
\* only; every set_completed and set_failed is followed by return (lines 82,
\* 91, 96) or was made by the except of line 62
poll_continues(write) == write.status = "none"

\* a loop without an attempt budget
PollAdmitsForever(j) == TRUE

\* for attempt in range(max_attempts) (line 74)
PollAdmits(j) == attempt[j] < MaxAttempts

\* _poll_upstream_status: one iteration of the loop (lines 74-99)
ThreadPoll(j) ==
    /\ tpc[j] = "poll"
    /\ PollAdmits(j)
    /\ attempt' = [attempt EXCEPT ![j] = @ + 1]
    /\ UNCHANGED <<exVars, wfVars, dryVars, now, provVars, callVars, lastRet, lastObs, tornDown, lk, gss, lastHttp>>
    /\ \E reply \in UpstreamReplies :
          LET write == poll_upstream_write(reply)
          IN  /\ store' = IF write.status = "completed" THEN set_completed(store, j, write.val)
                          ELSE IF write.status = "failed" THEN set_failed(store, j, write.val)
                          ELSE update_job(store, j, [progress |-> write.val])
              /\ jlog' = Logged(j, reply, write)
              /\ tpc' = [tpc EXCEPT ![j] = IF poll_continues(write) THEN @ ELSE "done"]

\* a loop that ends without a write when the attempt budget is used up
ThreadTimeoutSilent(j) ==
    /\ tpc[j] = "poll"
    /\ ~PollAdmits(j)
    /\ tpc' = [tpc EXCEPT ![j] = "done"]
    /\ UNCHANGED <<exVars, wfVars, dryVars, now, provVars, callVars, lastRet, lastObs, tornDown, lk, gss,
                   store, jlog, attempt, lastHttp>>

\* _poll_upstream_status: the attempt budget is used up (lines 101-103)
ThreadTimeout(j) ==
    /\ tpc[j] = "poll"
    /\ ~PollAdmits(j)
    /\ store' = set_failed(store, j, "Job timed out after 5 minutes")
    /\ jlog' = Logged(j, NoReply, [status |-> "failed", val |-> "Job timed out after 5 minutes"])
    /\ tpc' = [tpc EXCEPT ![j] = "done"]
    /\ UNCHANGED <<exVars, wfVars, dryVars, now, provVars, callVars, lastRet, lastObs, tornDown, lk, gss,
                   attempt, lastHttp>>

\* a response that always passes the error on
JobStatusResponseKeepsError(id, status_data) ==
    IF ~status_data.ok
    THEN Http("job_status", 500, NoId, "none", "none", status_data.error)
    ELSE [Http("job_status", 200, id, status_data.status,
               IF status_data.status = "Succeeded" THEN "present" ELSE "none",
               "WireGuard setup failed")
          EXCEPT !.confText = IF status_data.status = "Succeeded"
                              THEN status_data.confText ELSE None]

\* job_status.main, the response built from get_vm_status's answer (lines 65-107)
JobStatusResponse(id, status_data) ==
    IF ~status_data.ok
    THEN Http("job_status", 500, NoId, "none", "none", status_data.error)
    ELSE [Http("job_status", 200, id, status_data.status,
               IF status_data.status = "Succeeded" THEN "present" ELSE "none",
               IF status_data.status = "Failed" THEN status_data.error ELSE "none")
          EXCEPT !.confText = IF status_data.status = "Succeeded"
                              THEN status_data.confText ELSE None]

\* job_status.main; id is the "id" query parameter, NoId when it is missing
JobStatus(method, id) ==
    /\ UNCHANGED <<exVars, wfVars, dryVars, now, provVars, callVars, tornDown, lk, gss, store, tpc, attempt, jlog>>
    /\ \/ /\ method = "OPTIONS"
          /\ lastHttp' = Http("job_status", 204, NoId, "none", "none", "none")
          /\ UNCHANGED <<lastRet, lastObs>>
       \/ /\ method = "GET"
          /\ id = NoId
          /\ lastHttp' = Http("job_status", 400, NoId, "none", "none", "Missing 'id' query parameter")
          /\ UNCHANGED <<lastRet, lastObs>>
       \/ /\ method = "GET"
          /\ id # NoId
          /\ \E got \in VmLookup(id) :
             \E ip \in (IF got = "Succeeded" THEN IpResults(pip[id]) ELSE {None}) :
             \E run \in (IF got = "Succeeded" THEN RunResults ELSE {NoRun}) :
             \E diag \in (IF got = "Failed" THEN Feeds ELSE {<<>>}) :
                LET status_data == get_vm_status(id, got, ip, run, diag)
                IN  /\ lastRet' = status_data
                    /\ lastObs' = Obs(TRUE, FirstListedActive, FirstHeld, FALSE, ip)
                    /\ lastHttp' = JobStatusResponse(id, status_data)

IssuedUuids == {Uuid(j) : j \in DOMAIN store}

NextJob ==
    \/ \E method \in {"POST", "OPTIONS"} : \E principal \in Principals : StartJob(method, principal)
    \/ \E j \in Jobs : ThreadSetRunning(j)
    \/ \E j \in Jobs : ThreadStartProvisioning(j)
    \/ \E j \in Jobs : ThreadPoll(j)
    \/ \E j \in Jobs : ThreadTimeout(j)
    \/ \E method \in {"GET", "OPTIONS"} : \E id \in IssuedUuids \cup {NoId} : JobStatus(method, id)

SpecJob == InitJob /\ [][NextJob]_vars

\* start_job and its background threads alone
NextLedger ==
    \/ \E method \in {"POST", "OPTIONS"} : \E principal \in Principals : StartJob(method, principal)
    \/ \E j \in Jobs : ThreadSetRunning(j)
    \/ \E j \in Jobs : ThreadStartProvisioning(j)
    \/ \E j \in Jobs : ThreadPoll(j)
    \/ \E j \in Jobs : ThreadTimeout(j)

SpecLedger == InitJob /\ [][NextLedger]_vars

\* start_job and its background threads, a few jobs only, while the clock
\* moves
NextLedgerFew ==
    \/ \E method \in {"POST", "OPTIONS"} : \E principal \in Principals :
          Cardinality(DOMAIN store) < MaxApiJobs /\ StartJob(method, principal)
    \/ \E j \in Jobs : ThreadSetRunning(j)
    \/ \E j \in Jobs : ThreadStartProvisioning(j)
    \/ \E j \in Jobs : ThreadPoll(j)
    \/ \E j \in Jobs : ThreadTimeout(j)
    \/ Tick

\* the background threads are scheduled and every upstream call returns
SpecLedgerFair ==
    /\ InitJob /\ [][NextLedgerFew]_vars
    /\ \A j \in Jobs :
        /\ WF_vars(ThreadSetRunning(j))
        /\ WF_vars(ThreadStartProvisioning(j))
        /\ WF_vars(ThreadPoll(j))
        /\ WF_vars(ThreadTimeout(j))

\* the background threads are scheduled and the client keeps polling
SpecJobFair ==
    /\ SpecJob
    /\ \A j \in Jobs :
        /\ WF_vars(ThreadSetRunning(j))
        /\ WF_vars(ThreadStartProvisioning(j))
        /\ WF_vars(ThreadPoll(j))
        /\ WF_vars(ThreadTimeout(j))
        /\ WF_vars(j \in DOMAIN store /\ JobStatus("GET", Uuid(j)))

\* ------------------------------------------------------------------------
\* The StatusStore on its own: its methods called in any order
\* ------------------------------------------------------------------------
StoreUnchanged ==
    UNCHANGED <<exVars, wfVars, dryVars, now, provVars, callVars, lastRet, lastObs, tornDown, lk, gss,
                tpc, attempt, jlog, lastHttp>>

\* create_job under a fresh operation id
StoreCreateJob(operation_id) ==
    /\ operation_id \notin DOMAIN store
    /\ store' = create_job(store, operation_id)
    /\ StoreUnchanged

\* update_job(operation_id, progress=...) as at start_job line 99
StoreUpdateJob(operation_id) ==
    /\ store' = update_job(store, operation_id, [progress |-> "Processing..."])
    /\ StoreUnchanged

StoreSetRunning(operation_id) ==
    /\ store' = set_running(store, operation_id, "Processing...")
    /\ StoreUnchanged

StoreSetCompleted(operation_id) ==
    /\ store' = set_completed(store, operation_id, "upstream_result")
    /\ StoreUnchanged

StoreSetFailed(operation_id) ==
    /\ store' = set_failed(store, operation_id, "Upstream job failed")
    /\ StoreUnchanged

NextStore ==
    \/ \E id \in Jobs : StoreCreateJob(id)
    \/ \E id \in Jobs : StoreUpdateJob(id)
    \/ \E id \in Jobs : StoreSetRunning(id)
    \/ \E id \in Jobs : StoreSetCompleted(id)
    \/ \E id \in Jobs : StoreSetFailed(id)

SpecStore == InitJob /\ [][NextStore]_vars

\* ------------------------------------------------------------------------
\* The StatusStore under two threads, update_job statement by statement
\* ------------------------------------------------------------------------
\* a store whose methods skip the lock
LockAdmitsUnlocked(p) == TRUE

\* `with self._lock` (lines 28, 45, 50): nobody else is inside a method
LockAdmits(p) == \A q \in Procs \ {p} : lk[q].pc = "idle"

\* update_job lines 50-55: take the lock, find the job, job.update(updates)
LockedUpdateJob(p, operation_id, updates) ==
    /\ lk[p].pc = "idle"
    /\ LockAdmits(p)
    /\ operation_id \in DOMAIN store
    /\ store' = [store EXCEPT ![operation_id] = updates @@ @]
    /\ lk' = [lk EXCEPT ![p] = [pc |-> "stamp", id |-> operation_id, updates |-> updates,
                                before |-> store]]
    /\ UNCHANGED <<exVars, wfVars, dryVars, now, provVars, callVars, lastRet, lastObs, tornDown,
                   tpc, attempt, lastHttp, jlog, gss>>

\* update_job lines 56-57: stamp lastUpdatedAt, return, release the lock
LockedStamp(p) ==
    /\ lk[p].pc = "stamp"
    /\ store' = [store EXCEPT ![lk[p].id].lastUpdatedAt = now]
    /\ lk' = [lk EXCEPT ![p] = NoCall]
    /\ UNCHANGED <<exVars, wfVars, dryVars, now, provVars, callVars, lastRet, lastObs, tornDown,
                   tpc, attempt, lastHttp, jlog, gss>>

\* the keyword arguments of set_running, set_completed, set_failed (lines
\* 59-83) and of update_job(progress=...); create_job holds the lock for its
\* one assignment
NextLock ==
    \/ \E p \in Procs : LockAdmits(p) /\ lk[p].pc = "idle" /\ StoreCreateJob(1)
    \/ \E p \in Procs :
          \E updates \in {[status |-> "running", progress |-> "Processing..."],
                          [status |-> "completed", progress |-> "Completed successfully",
                           result |-> "upstream_result"],
                          [status |-> "failed", progress |-> "Failed",
                           error |-> "Upstream job failed"],
                          [progress |-> "Installing WireGuard"]} :
              LockedUpdateJob(p, 1, updates)
    \/ \E p \in Procs : LockedStamp(p)
    \/ Tick

SpecLock == InitJob /\ [][NextLock]_vars

\* ------------------------------------------------------------------------
\* get_status_store under two threads, statement by statement
\* ------------------------------------------------------------------------
\* a module whose accessor enters the guarded block without taking the lock
StoreLockFreeIgnored == TRUE

\* `with _store_lock` (line 112) can be entered: nobody holds the lock
StoreLockFree == gss.lock = 0

\* get_status_store (lines 106-116), one statement of caller p at a time:
\* the call, the outer test of line 111, taking the lock of line 112, the
\* inner test of line 113, the construction and assignment of line 114,
\* leaving the with block, and `return _store_instance` of line 116
get_status_store(p) ==
    /\ \/ /\ gss.pc[p] = "idle"
          /\ gss' = [gss EXCEPT !.pc[p] = "outer"]
       \/ /\ gss.pc[p] = "outer"
          /\ gss' = [gss EXCEPT !.pc[p] = IF gss.instance = NoInstance THEN "acquire" ELSE "return"]
       \/ /\ gss.pc[p] = "acquire"
          /\ StoreLockFree
          /\ gss' = [gss EXCEPT !.lock = p, !.pc[p] = "inner"]
       \/ /\ gss.pc[p] = "inner"
          /\ gss' = [gss EXCEPT !.pc[p] = IF gss.instance = NoInstance THEN "construct" ELSE "release"]
       \/ /\ gss.pc[p] = "construct"
          /\ gss' = [gss EXCEPT !.constructed = @ + 1, !.instance = gss.constructed + 1,
                                !.pc[p] = "release"]
       \/ /\ gss.pc[p] = "release"
          /\ gss' = [gss EXCEPT !.lock = 0, !.pc[p] = "return"]
       \/ /\ gss.pc[p] = "return"
          /\ gss' = [gss EXCEPT !.ret[p] = gss.instance, !.pc[p] = "idle"]
    /\ UNCHANGED <<exVars, wfVars, dryVars, now, provVars, callVars, lastRet, lastObs, tornDown,
                   store, tpc, attempt, lastHttp, jlog, lk>>

\* start_job.main (line 150) and each background thread (line 30) call
\* get_status_store; the clock runs meanwhile
NextSingleton ==
    \/ \E p \in Procs : get_status_store(p)
    \/ Tick

SpecSingleton == InitJob /\ [][NextSingleton]_vars

\* A client polling job_status for a VM that create_vm has requested,
\* while the provider works on it and a teardown may run
PolledVm == 0

InitPoll ==
    /\ InitIdleExtract
    /\ InitIdleDryRun
    /\ InitIdleJobs
    /\ InitIdleWf
    /\ now = 0
    /\ vmState = [n \in Names |-> IF n = PolledVm THEN "Creating" ELSE "Absent"]
    /\ vmListed \in {[n \in Names |-> n = PolledVm /\ listed] : listed \in BOOLEAN}
    /\ pip = [n \in Names |-> n = PolledVm]
    /\ nic = [n \in Names |-> n = PolledVm]
    /\ sharedNet = TRUE
    /\ vmTagged = [n \in Names |-> TRUE]
    /\ pc = [p \in Procs |-> "idle"]
    /\ name = [p \in Procs |-> NoName]
    /\ calls = 1
    /\ lastRet = Result("getOrCreate", TRUE, PolledVm, "InProgress", "none",
                        None, None, "absent", "none", NoRun)
    /\ lastObs = Obs(TRUE, NoName, NoName, TRUE, None)
    /\ atScan = [p \in Procs |-> NoScan]
    /\ overlapped = FALSE
    /\ steps = [p \in Procs |-> <<>>]
    /\ tornDown = FALSE

NextPoll ==
    \/ \E method \in {"GET", "OPTIONS"} : \E id \in Names \cup {NoName, NoId} : JobStatus(method, id)
    \/ \E n \in Names : DeleteVmBegin(n)
    \/ \E n \in Names : DeleteVmFinish(n)
    \/ \E n \in Names : ProviderLists(n)
    \/ \E n \in Names : ProviderFinishes(n)

SpecPoll == InitPoll /\ [][NextPoll]_vars

\* Both endpoints in production mode: jobs are started and processed in the
\* ledger while a client polls job_status for the VM
NextApi ==
    \/ \E method \in {"GET", "OPTIONS"} : \E id \in {PolledVm, NoName, NoId} : JobStatus(method, id)
    \/ \E n \in Names : ProviderLists(n)
    \/ \E n \in Names : ProviderFinishes(n)
    \/ \E method \in {"POST", "OPTIONS"} : \E principal \in Principals :
          Cardinality(DOMAIN store) < MaxApiJobs /\ StartJob(method, principal)
    \/ \E j \in Jobs : ThreadSetRunning(j)
    \/ \E j \in Jobs : ThreadStartProvisioning(j)
    \/ \E j \in Jobs : ThreadPoll(j)
    \/ \E j \in Jobs : ThreadTimeout(j)

SpecApi == InitPoll /\ [][NextApi]_vars

\* ------------------------------------------------------------------------
\* start_job / job_status with DRY_RUN=true
\* ------------------------------------------------------------------------
\* start_job.main: validate_user lets every request through (auth.py line 33)
DryStartJob(method) ==
    /\ UNCHANGED <<exVars, wfVars, dryVars, now, provVars, callVars, lastRet, lastObs, tornDown, lk, gss, attempt>>
    /\ \/ /\ method = "OPTIONS"
          /\ lastHttp' = Http("start_job", 204, NoId, "none", "none", "none")
          /\ UNCHANGED <<store, tpc, jlog>>
       \/ /\ method = "POST"
          /\ Cardinality(DOMAIN store) < MaxDryOps
          /\ LET j == Cardinality(DOMAIN store) + 1
             IN  /\ store' = create_job(store, j)
                 /\ jlog' = [jlog EXCEPT ![j].statuses = <<"pending">>]
                 /\ tpc' = [tpc EXCEPT ![j] = "started"]
                 /\ lastHttp' = Http("start_job", 202, Uuid(j), "accepted", "none", "none")

\* _process_job_async with the simulated upstream: start_provisioning
\* answers with upstream_id "dry-run-vm-12345" (upstream.py lines 57-64)
DryThreadStartProvisioning(j) ==
    /\ tpc[j] = "provision"
    /\ store' = update_job(store, j,
                   [upstreamId |-> "id", progress |-> "Provisioning VM and WireGuard tunnel..."])
    /\ jlog' = Logged(j, NoReply,
                      [status |-> "none", val |-> "Provisioning VM and WireGuard tunnel..."])
    /\ tpc' = [tpc EXCEPT ![j] = "poll"]
    /\ UNCHANGED <<exVars, wfVars, dryVars, now, provVars, callVars, lastRet, lastObs, tornDown, lk, gss,
                   attempt, lastHttp>>

\* _poll_upstream_status with the simulated upstream: get_status answers
\* completed at the first poll (upstream.py lines 115-126)
DryThreadPoll(j) ==
    /\ tpc[j] = "poll"
    /\ PollAdmits(j)
    /\ attempt' = [attempt EXCEPT ![j] = @ + 1]
    /\ store' = set_completed(store, j, "upstream_result")
    /\ jlog' = Logged(j, [ok |-> TRUE, status |-> "completed", val |-> "upstream_result"],
                      [status |-> "completed", val |-> "upstream_result"])
    /\ tpc' = [tpc EXCEPT ![j] = "done"]
    /\ UNCHANGED <<exVars, wfVars, dryVars, now, provVars, callVars, lastRet, lastObs, tornDown, lk, gss,
                   lastHttp>>

\* job_status.main over get_vm_status's dry-run branch
DryJobStatus(method, id) ==
    /\ UNCHANGED <<exVars, wfVars, now, provVars, callVars, lastObs, tornDown, lk, gss, store, tpc, attempt, jlog>>
    /\ \/ /\ method = "OPTIONS"
          /\ lastHttp' = Http("job_status", 204, NoId, "none", "none", "none")
          /\ UNCHANGED <<lastRet, dryVars>>
       \/ /\ method = "GET"
          /\ id = NoId
          /\ lastHttp' = Http("job_status", 400, NoId, "none", "none", "Missing 'id' query parameter")
          /\ UNCHANGED <<lastRet, dryVars>>
       \/ /\ method = "GET"
          /\ id # NoId
          /\ dryOps' = DryOpsAfter(id)
          /\ LET status == get_dry_run_status(id)
                 status_data ==
                     IF status = "Succeeded"
                     THEN Result("getStatus", TRUE, id, status, "none", DryAddress,
                                 get_sample_config(DryAddress), "absent", "none", NoRun)
                     ELSE Result("getStatus", TRUE, id, status, "none", None, None,
                                 "absent", "none", NoRun)
             IN  /\ lastRet' = status_data
                 /\ lastHttp' = JobStatusResponse(id, status_data)
                 /\ dryLast' = [i \in DOMAIN dryLast \cup {id} |->
                                   IF i = id THEN status ELSE dryLast[i]]
                 /\ dryAt' = now
          /\ UNCHANGED issued

NextDryApi ==
    \/ \E method \in {"POST", "OPTIONS"} : DryStartJob(method)
    \/ \E j \in Jobs : ThreadSetRunning(j)
    \/ \E j \in Jobs : DryThreadStartProvisioning(j)
    \/ \E j \in Jobs : DryThreadPoll(j)
    \/ \E method \in {"GET", "OPTIONS"} : \E id \in IssuedUuids \cup {NoId} : DryJobStatus(method, id)
    \/ TickDry

SpecDryApi == InitDry /\ [][NextDryApi]_vars

\* ------------------------------------------------------------------------
\* Durable backend (src/backend): HTTP starters, orchestrators, activities
\* ------------------------------------------------------------------------
BackendPrincipals == {"missing", "undecodable", "noEmail", "notAllowed", "allowed"}

\* backend/shared/auth.py validate_user: the allow-list check
validate_user_allowlist(principal) ==
    IF principal = "missing" THEN [valid |-> FALSE, error |-> "Authentication required"]
    ELSE IF principal = "undecodable" THEN [valid |-> FALSE, error |-> "Authentication error"]
    ELSE IF principal = "noEmail" THEN [valid |-> FALSE, error |-> "User email not found"]
    ELSE IF principal = "notAllowed" THEN [valid |-> FALSE, error |-> "User is not authorized"]
    ELSE [valid |-> TRUE, error |-> "none"]

\* the objects the first k steps of a sequence of provider calls dealt with
FirstOf(order, k) == {order[j] : j \in 1..(IF k < Len(order) THEN k ELSE Len(order))}

\* the first unused instance id, 0 when MaxInst orchestrations were started
FreeInst ==
    IF \A i \in Inst : wf[i].kind # "none" THEN 0
    ELSE CHOOSE i \in Inst : wf[i].kind = "none" /\ \A k \in 1..(i - 1) : wf[k].kind # "none"

\* a teardown that takes a missing object for a failed deletion
teardown_counts_not_found(vm_name, configured, out) ==
    IF ~configured
    THEN [status |-> "error", vmName |-> vm_name, deleted |-> {}, failed |-> {},
          ran |-> FALSE, out |-> out]
    ELSE LET failed == {r \in {"vm", "nic", "ip", "vnet"} : out[r] # "done"}
         IN  [status |-> IF failed # {} THEN "partial_success" ELSE "success",
              vmName |-> vm_name, deleted |-> {r \in DOMAIN out : out[r] = "done"},
              failed |-> failed, ran |-> TRUE, out |-> out]

\* teardown_real_vm.  configured: subscription and resource group are set and
\* the clients were built; out: what begin_delete(...).wait() did for each
\* object: "done", "notfound" (ResourceNotFoundError), "error", or "notrun"
\* when the call was never made.  A result without a
\* 'deleted' or 'failed' key has the empty set there.
teardown_real_vm(vm_name, configured, out) ==
    IF ~configured
    THEN [status |-> "error", vmName |-> vm_name, deleted |-> {}, failed |-> {},
          ran |-> FALSE, out |-> out]
    ELSE LET failed == {r \in {"vm", "nic", "ip", "vnet"} : out[r] = "error"}
         IN  [status |-> IF failed # {} THEN "partial_success" ELSE "success",
              vmName |-> vm_name, deleted |-> {r \in DOMAIN out : out[r] = "done"},
              failed |-> failed, ran |-> TRUE, out |-> out]

\* functions/http_start main
HttpStart(principal) ==
    /\ UNCHANGED <<exVars, dryVars, now, provVars, callVars, lastRet, lastObs, tornDown, lk, gss,
                   store, tpc, attempt, jlog, cloud, tdRet>>
    /\ \/ /\ ~validate_user_allowlist(principal).valid
          /\ lastHttp' = Http("http_start", 403, NoId, "none", "none",
                              validate_user_allowlist(principal).error)
          /\ UNCHANGED wf
       \/ \* start_new raises: caught at line 66
          /\ validate_user_allowlist(principal).valid
          /\ lastHttp' = Http("http_start", 500, NoId, "none", "none", "Internal server error")
          /\ UNCHANGED wf
       \/ /\ validate_user_allowlist(principal).valid
          /\ FreeInst # 0
          /\ wf' = [wf EXCEPT ![FreeInst] = [NoWf EXCEPT !.kind = "orchestrator", !.pc = "create"]]
          /\ lastHttp' = Http("http_start", 202, FreeInst, "none", "none", "none")

\* StartSession main; duration is the request body's 'duration', unchecked
StartSession(principal, duration) ==
    /\ UNCHANGED <<exVars, dryVars, now, provVars, callVars, lastRet, lastObs, tornDown, lk, gss,
                   store, tpc, attempt, jlog, cloud, tdRet>>
    /\ \/ /\ ~validate_user_allowlist(principal).valid
          /\ lastHttp' = Http("StartSession", 401, NoId, "none", "none",
                              validate_user_allowlist(principal).error)
          /\ UNCHANGED wf
       \/ /\ validate_user_allowlist(principal).valid
          /\ FreeInst # 0
          /\ wf' = [wf EXCEPT ![FreeInst] = [NoWf EXCEPT !.kind = "WireGuardOrchestrator",
                                                          !.pc = "create",
                                                          !.vmName = Wireguard(FreeInst),
                                                          !.duration = duration]]
          /\ lastHttp' = Http("StartSession", 202, FreeInst, "none", "none", "none")

\* an orchestrator that goes from the create step straight to the teardown
orchestrator_skips_timer(ok) == IF ok THEN "destroy" ELSE "done"

\* functions/orchestrator: where it goes on the create activity's result
\* (lines 42-75): to the timer, or out with an error
orchestrator_after_create(ok) == IF ok THEN "timer" ELSE "done"

\* functions/orchestrator step 1 with the activity create_vm_and_wireguard
\* (create_real_vm): k of the calls for address, network, interface and VM
\* completed; with all four the address may still never be assigned (k = 4)
OrchestratorCreate(i) ==
    /\ wf[i].kind = "orchestrator" /\ wf[i].pc = "create"
    /\ \E k \in 0..5 :
          LET made == FirstOf(<<"ip", "vnet", "nic", "vm">>, k)
                        \cup (IF k >= 4 THEN {"disk"} ELSE {})
          IN  /\ cloud' = [cloud EXCEPT ![WgVm(now)] = @ \cup made]
              /\ wf' = [wf EXCEPT ![i] =
                          [@ EXCEPT !.made = made, !.createOk = (k = 5),
                                    !.createName = WgVm(now),
                                    !.vmName = IF k = 5 THEN WgVm(now) ELSE NoName,
                                    !.pc = orchestrator_after_create(k = 5)]]
    /\ UNCHANGED <<exVars, dryVars, jobVars, now, provVars, callVars, lastRet, lastObs,
                   tornDown, tdRet>>

\* WireGuardOrchestrator step 1 with the activity ProvisionVM: k of
\* VMManager.create_vm's calls completed; with k < 4 the exception leaves
\* create_vm and ProvisionVM returns status error, which the orchestrator
\* does not look at
SessionProvision(i) ==
    /\ wf[i].kind = "WireGuardOrchestrator" /\ wf[i].pc = "create"
    /\ \E k \in 0..4 :
          LET made == FirstOf(<<"vnet", "ip", "nic", "vm">>, k)
          IN  /\ cloud' = [cloud EXCEPT ![wf[i].vmName] = @ \cup made]
              /\ wf' = [wf EXCEPT ![i] =
                          [@ EXCEPT !.made = made, !.createOk = (k = 4),
                                    !.createName = wf[i].vmName,
                                    !.mgr = IF k = 4 THEN "returned" ELSE "raised",
                                    !.pc = "timer"]]
    /\ UNCHANGED <<exVars, dryVars, jobVars, now, provVars, callVars, lastRet, lastObs,
                   tornDown, tdRet>>

\* the durable timer: create_timer and its firing.  WireGuardOrchestrator
\* computes the deadline from the request's duration, which raises for a
\* duration that is no number (caught at line 43)
TimerFires(i) ==
    /\ wf[i].pc = "timer"
    /\ wf' = [wf EXCEPT ![i] =
                IF wf[i].kind = "WireGuardOrchestrator" /\ wf[i].duration # "number"
                THEN [@ EXCEPT !.pc = "done"]
                ELSE [@ EXCEPT !.pc = "destroy", !.timerFired = TRUE]]
    /\ UNCHANGED <<exVars, dryVars, jobVars, now, provVars, callVars, lastRet, lastObs,
                   tornDown, cloud, tdRet>>

\* functions/orchestrator step 4 with the activity teardown_vm
OrchestratorTeardown(i) ==
    /\ wf[i].kind = "orchestrator" /\ wf[i].pc = "destroy"
    /\ \E configured \in BOOLEAN :
       \E out \in [{"vm", "nic", "ip", "vnet", "disk"} -> {"done", "notfound", "error", "notrun"}] :
          /\ \A r \in DOMAIN out :
                out[r] \in (IF ~configured THEN {"notrun"}
                            ELSE IF r \in cloud[wf[i].vmName] THEN {"done", "error"}
                            ELSE {"notfound", "error"})
          /\ tdRet' = teardown_real_vm(wf[i].vmName, configured, out)
          /\ cloud' = [cloud EXCEPT ![wf[i].vmName] = @ \ {r \in DOMAIN out : out[r] = "done"}]
    /\ wf' = [wf EXCEPT ![i] = [@ EXCEPT !.pc = "done", !.destroyCalls = @ + 1,
                                        !.destroyName = wf[i].vmName]]
    /\ UNCHANGED <<exVars, dryVars, jobVars, now, provVars, callVars, lastRet, lastObs,
                   tornDown>>

\* WireGuardOrchestrator step 3 with the activity DestroyVM: k of
\* VMManager.destroy_vm's deletions completed; with k < 4 the exception leaves
\* destroy_vm and DestroyVM returns status error
SessionDestroy(i) ==
    /\ wf[i].kind = "WireGuardOrchestrator" /\ wf[i].pc = "destroy"
    /\ \E k \in 0..4 :
          /\ cloud' = [cloud EXCEPT ![wf[i].vmName] = @ \ FirstOf(<<"vm", "nic", "ip", "vnet">>, k)]
          /\ wf' = [wf EXCEPT ![i] =
                      [@ EXCEPT !.pc = "done", !.destroyCalls = @ + 1,
                                !.destroyName = wf[i].vmName,
                                !.mgr = IF k = 4 THEN "returned" ELSE "raised"]]
    /\ UNCHANGED <<exVars, dryVars, jobVars, now, provVars, callVars, lastRet, lastObs,
                   tornDown, tdRet>>

NextDurable ==
    \/ \E principal \in BackendPrincipals : HttpStart(principal)
    \/ \E principal \in BackendPrincipals : \E duration \in {"number", "other"} :
          StartSession(principal, duration)
    \/ \E i \in Inst : OrchestratorCreate(i)
    \/ \E i \in Inst : SessionProvision(i)
    \/ \E i \in Inst : TimerFires(i)
    \/ \E i \in Inst : OrchestratorTeardown(i)
    \/ \E i \in Inst : SessionDestroy(i)
    \/ Tick

SpecDurable == Init /\ [][NextDurable]_vars

\* The teardown activity on its own: an orchestration whose timer has fired,
\* the provider holding any part of what the create activity made (objects
\* may have been removed by hand since)
InitTeardown ==
    /\ InitIdleExtract
    /\ InitIdleProvisioner
    /\ InitIdleDryRun
    /\ InitIdleJobs
    /\ tdRet = [status |-> "none", vmName |-> NoName, deleted |-> {}, failed |-> {},
                ran |-> FALSE, out |-> [r \in {} |-> "none"]]
    /\ \E held \in SUBSET {"vm", "nic", "ip", "vnet", "disk"} :
          /\ cloud = [n \in {WgVm(t) : t \in 0..MaxTime} \cup {Wireguard(i) : i \in Inst} |->
                        IF n = WgVm(0) THEN held ELSE {}]
          /\ wf = [i \in Inst |->
                     IF i = 1
                     THEN [NoWf EXCEPT !.kind = "orchestrator", !.pc = "destroy",
                                       !.vmName = WgVm(0), !.createName = WgVm(0),
                                       !.made = {"vm", "nic", "ip", "vnet", "disk"},
                                       !.createOk = TRUE, !.timerFired = TRUE]
                     ELSE NoWf]

NextTeardown == \E i \in Inst : OrchestratorTeardown(i)

SpecTeardown == InitTeardown /\ [][NextTeardown]_vars

\* ------------------------------------------------------------------------
\* Specification of the extraction function alone
\* ------------------------------------------------------------------------
InitExtract ==
    /\ exIn \in TextsUpTo(MaxLen) \cup {None}
    /\ exOut = None
    /\ exDone = FALSE
    /\ exHist = NoHist
    /\ InitIdleProvisioner
    /\ InitIdleDryRun
    /\ InitIdleJobs
    /\ InitIdleWf

\* a cache of the last extracted config would make the result depend on
\* earlier calls
ExtractOfCached(output) ==
    IF exDone /\ exOut # None THEN exOut ELSE extract_wireguard_config(output)

\* self._extract_wireguard_config(output): the method reads nothing of self
ExtractOf(output) == extract_wireguard_config(output)

\* the first call, on the input under study
ExtractCall ==
    /\ ~exDone
    /\ exOut' = ExtractOf(exIn)
    /\ exDone' = TRUE
    /\ exHist' = [in |-> exIn, out |-> exOut', n |-> 1, between |-> FALSE]
    /\ UNCHANGED <<exIn, wfVars, dryVars, jobVars, now, provVars, callVars, lastRet, lastObs,
                   tornDown>>

\* a later call, on the same input again or on another command output
ExtractAgain(output) ==
    /\ exDone
    /\ exHist.n < MaxExCalls
    /\ exIn' = output
    /\ exOut' = ExtractOf(output)
    /\ exHist' = [exHist EXCEPT !.n = @ + 1,
                                 !.between = @ \/ output # exHist.in]
    /\ UNCHANGED <<exDone, wfVars, dryVars, jobVars, now, provVars, callVars, lastRet, lastObs,
                   tornDown>>

NextExtract == ExtractCall

SpecExtract == InitExtract /\ [][NextExtract]_vars

\* repeated calls: the first input again, interleaved with other outputs
NextExtractRepeat ==
    \/ ExtractCall
    \/ \E output \in {exHist.in} \cup CmdOutputs \cup {None} : ExtractAgain(output)

SpecExtractRepeat == InitExtract /\ [][NextExtractRepeat]_vars

\* ------------------------------------------------------------------------
\* Claims
\* ------------------------------------------------------------------------

\* C9: the extraction result is None or a text containing both [Interface]
\* and [Peer]; it is None whenever the input lacks the start or the end
\* sentinel (or is no text at all).
C9_ExtractNoneOrValid ==
    exDone =>
        /\ (exOut # None => Contains(exOut, "I") /\ Contains(exOut, "P"))
        /\ (exIn = None \/ ~Contains(exIn, "S") \/ ~Contains(exIn, "E") => exOut = None)

\* a config was extracted out of surrounding noise
C9_Witness ==
    /\ exDone
    /\ exIn # None
    /\ exOut # None
    /\ Len(exIn) > Len(exOut) + 2

\* C10 (as claimed): whenever a start sentinel is followed by the next end
\* sentinel and the trimmed text between them holds [Interface] and [Peer],
\* the result is exactly that trimmed text, whatever surrounds the pair.
C10_Original ==
    exDone /\ exIn # None =>
        \A i \in 1..Len(exIn) : \A j \in (i + 1)..Len(exIn) :
            LET payload == Strip(SubSeq(exIn, i + 1, j - 1))
            IN  ( /\ exIn[i] = "S" /\ exIn[j] = "E"
                  /\ \A k \in (i + 1)..(j - 1) : exIn[k] \notin {"S", "E"}
                  /\ Contains(payload, "I") /\ Contains(payload, "P") )
                => exOut = payload


\* C1 (as claimed, for the calls that succeed): a get_or_create_vm call made
\* while the provider holds a tagged VM in state Creating or Succeeded (no
\* teardown so far) returns an existing VM and requests no creation.
C1_Original ==
    (lastRet.op = "getOrCreate" /\ lastRet.ok /\ ~tornDown /\ lastObs.held # NoName) =>
        /\ ~lastObs.created
        /\ lastRet.isExisting = "true"

\* C2 (as claimed): while get_or_create_vm calls have not overlapped and
\* nothing was torn down, at most one VM is Creating, Updating or Succeeded.
C2_Original ==
    (~overlapped /\ ~tornDown) => Cardinality(Active) <= 1

\* C3: no step of get_or_create_vm serializes callers: while one caller is
\* between its scan and its create request and no active VM is listed,
\* another caller can complete its own scan finding none.
C3_ScanNotSerialized ==
    \A p \in Procs : \A q \in Procs \ {p} :
        (pc[p] \in {"net", "ip", "nic", "vm"} /\ pc[q] = "idle"
            /\ calls < MaxCalls /\ ListedActive = {})
        => ENABLED (GetOrCreateScan(q) /\ pc'[q] = "net")

\* both of two overlapping calls have created: two listed active VMs
C3_Witness ==
    /\ calls = 2 /\ overlapped /\ ~tornDown
    /\ \A p \in Procs : pc[p] = "idle"
    /\ Cardinality(ListedActive) = 2

\* C6 (as claimed): a Succeeded VM whose config retrieval failed is never
\* reported as Failed by get_vm_status.
C6_Original ==
    (lastRet.op = "getStatus" /\ lastRet.prov = "Succeeded"
        /\ retrieve_wireguard_config_via_run_command(lastRet.run) = None)
    => lastRet.status # "Failed"

\* C7 (as claimed): a Succeeded VM whose config was extracted but whose
\* address could not be resolved yields success, status Succeeded, the
\* parsed config and no address.
C7_Original ==
    (lastRet.op = "getStatus" /\ lastRet.prov = "Succeeded"
        /\ retrieve_wireguard_config_via_run_command(lastRet.run) # None
        /\ lastObs.ip = None)
    => /\ lastRet.ok
       /\ lastRet.status = "Succeeded"
       /\ lastRet.confText = retrieve_wireguard_config_via_run_command(lastRet.run)
       /\ lastRet.publicIp = None

\* C8 (as claimed): every config a production call returns was extracted
\* from the VM's command output, and get_or_create_vm returns no config
\* (still succeeding, isExisting true) when retrieval fails.
C8_Original ==
    /\ (lastRet.op \in {"getOrCreate", "getStatus"} /\ lastRet.confText # None)
        => retrieve_wireguard_config_via_run_command(lastRet.run) # None
    /\ (lastRet.op = "getOrCreate" /\ lastRet.isExisting = "true"
            /\ retrieve_wireguard_config_via_run_command(lastRet.run) = None)
        => (lastRet.ok /\ lastRet.confText = None)

\* C5 (as claimed): get_vm_status never answers Succeeded for an operation
\* id that no get_or_create_vm / create_vm call returned.
C5_Original ==
    (lastRet.op = "getStatus" /\ lastRet.opId \notin issued) => lastRet.status # "Succeeded"

\* C4 (as claimed): polling job_status with the operationId of a 202
\* response reports the work that start began: once that work has completed
\* some later poll answers Succeeded, once it has failed some later poll
\* answers Failed.
C4_Original ==
    \A j \in Jobs :
        /\ [](j \in DOMAIN store /\ store[j].status = "completed"
              => <>(lastHttp.handler = "job_status" /\ lastHttp.opId = Uuid(j)
                    /\ lastHttp.status = "Succeeded"))
        /\ [](j \in DOMAIN store /\ store[j].status = "failed"
              => <>(lastHttp.handler = "job_status" /\ lastHttp.opId = Uuid(j)
                    /\ lastHttp.status = "Failed"))

C12_DryStatusByElapsed ==
    [][ /\ (lastRet'.op = "getStatus" /\ lastRet'.opId \in DOMAIN dryOps') =>
             LET t == dryAt' - dryOps'[lastRet'.opId]
             IN  lastRet'.status = IF t < 3 THEN "Creating"
                                   ELSE IF t < 8 THEN "Running" ELSE "Succeeded"
        /\ \A id \in DOMAIN dryLast :
             LET rank == [st \in {"Creating", "Running", "Succeeded"} |->
                            IF st = "Creating" THEN 1 ELSE IF st = "Running" THEN 2 ELSE 3]
             IN  rank[dryLast'[id]] >= rank[dryLast[id]]
      ]_vars

\* an issued id queried 8s or more after its recorded start: Succeeded
C12_Witness ==
    /\ lastRet.op = "getStatus" /\ lastRet.status = "Succeeded"
    /\ lastRet.opId \in issued
    /\ dryAt - dryOps[lastRet.opId] >= 8

\* C13 (as claimed): with dry run enabled a start request is answered 202
\* with an operationId and status accepted; a status query for that id made
\* at the moment of the start answers Creating, and every status query made
\* 8 or more seconds after the start answers Succeeded with a client config
\* holding [Interface] and [Peer].
C13_Original ==
    /\ (lastHttp.handler = "start_job" /\ lastHttp.code # 204) =>
           (lastHttp.code = 202 /\ lastHttp.opId \in IssuedUuids /\ lastHttp.status = "accepted")
    /\ \A j \in DOMAIN store :
           (lastHttp.handler = "job_status" /\ lastHttp.opId = Uuid(j) /\ lastRet.opId = Uuid(j)) =>
               /\ dryAt = store[j].createdAt => lastHttp.status = "Creating"
               /\ dryAt - store[j].createdAt >= 8 =>
                      /\ lastHttp.status = "Succeeded"
                      /\ lastHttp.result = "present"
                      /\ Contains(lastHttp.confText, "I") /\ Contains(lastHttp.confText, "P")

\* C14: for a VM the provider reports as Failed, get_vm_status succeeds with
\* status Failed; its error is a message of an error-level entry of the VM's
\* status feed, and it is the generic "VM provisioning failed" exactly when
\* no error-level entry of the feed carries a message.
C14_FailedDiagnostic ==
    (lastRet.op = "getStatus" /\ lastRet.prov = "Failed") =>
        LET msgs == {lastRet.feed[i].message : i \in
                        {k \in 1..Len(lastRet.feed) :
                            lastRet.feed[k].level = "Error" /\ lastRet.feed[k].message # ""}}
        IN  /\ lastRet.ok
            /\ lastRet.status = "Failed"
            /\ msgs # {} => lastRet.error \in msgs
            /\ msgs = {} <=> lastRet.error = "VM provisioning failed"

\* a Failed VM whose feed says "quota exceeded" was polled
C14_Witness ==
    /\ lastRet.op = "getStatus" /\ lastRet.prov = "Failed"
    /\ lastRet.feed # <<>>
    /\ lastRet.error = "quota exceeded"

C16_ResultErrorExclusive ==
    /\ (lastHttp.handler = "job_status" /\ lastHttp.code = 200) =>
           /\ lastHttp.result # "none" => lastHttp.status = "Succeeded"
           /\ lastHttp.error # "none" => lastHttp.status = "Failed"
           /\ ~(lastHttp.result # "none" /\ lastHttp.error # "none")
    /\ \A j \in DOMAIN store :
           /\ store[j].result # "none" => store[j].status = "completed"
           /\ store[j].error # "none" => store[j].status = "failed"

\* a Succeeded answer with its result, next to a failed job with its error
C16_Witness ==
    /\ lastHttp.handler = "job_status" /\ lastHttp.code = 200
    /\ lastHttp.status = "Succeeded" /\ lastHttp.result = "present"
    /\ \E j \in DOMAIN store : store[j].status = "failed" /\ store[j].error # "none"

\* C17 (as claimed): the status of every 200 response of the status endpoint
\* is one of Creating, InProgress, Succeeded, Failed.
C17_Original ==
    (lastHttp.handler = "job_status" /\ lastHttp.code = 200) =>
        lastHttp.status \in {"Creating", "InProgress", "Succeeded", "Failed"}

\* C18 (as claimed): once a job of the ledger is completed or failed, no
\* later update_job, set_running, set_completed or set_failed changes its
\* status, result or error.
C18_Original ==
    [][ \A j \in DOMAIN store :
            store[j].status \in {"completed", "failed"} =>
                /\ store'[j].status = store[j].status
                /\ store'[j].result = store[j].result
                /\ store'[j].error = store[j].error ]_vars

\* C19: _poll_upstream_status makes at most max_attempts status queries per
\* job; when all of them found the upstream still running, the thread's next
\* step marks the job failed with the timeout message and polling stops (no
\* further query).
C19_PollBudget ==
    [][ \A j \in Jobs :
            /\ attempt'[j] <= MaxAttempts
            /\ (tpc[j] = "poll" /\ attempt[j] = MaxAttempts /\ j \in DOMAIN store
                    /\ (tpc'[j] # tpc[j] \/ store'[j] # store[j] \/ attempt'[j] # attempt[j]))
               => /\ tpc'[j] = "done"
                  /\ attempt'[j] = attempt[j]
                  /\ store'[j].status = "failed"
                  /\ store'[j].error = "Job timed out after 5 minutes" ]_vars

\* a job whose every poll found the upstream running was marked timed out
C19_Witness ==
    \E j \in DOMAIN store :
        /\ tpc[j] = "done" /\ attempt[j] = MaxAttempts
        /\ store[j].status = "failed"
        /\ store[j].error = "Job timed out after 5 minutes"

\* C20 (as claimed): a delete_vm call attempts the deletion of the network
\* interface and of the public address whatever happens to the deletion of
\* the VM.
C20_Original ==
    lastRet.op = "delete" => {"nic", "ip"} \subseteq lastRet.attempted

\* C21 (as claimed): teardown_real_vm answers success if and only if no VM,
\* NIC, address or VNet deletion raised an error other than not-found, and
\* partial_success if one did; not-found deletions are neither deleted nor
\* failed, completed deletions are listed under deleted and failed ones
\* under failed.
C21_Original ==
    tdRet.status # "none" =>
        LET errors == {r \in {"vm", "nic", "ip", "vnet"} : tdRet.out[r] = "error"}
        IN  /\ tdRet.status = "success" <=> errors = {}
            /\ errors # {} => tdRet.status = "partial_success"
            /\ tdRet.deleted = {r \in DOMAIN tdRet.out : tdRet.out[r] = "done"}
            /\ tdRet.failed = errors

\* C21 (amended): the classification holds for every teardown_real_vm call
\* that got to its deletions; a call that finds the configuration missing
\* or cannot build its clients answers error, with nothing deleted or failed.
C21_TeardownClassified ==
    /\ tdRet.ran =>
           LET errors == {r \in {"vm", "nic", "ip", "vnet"} : tdRet.out[r] = "error"}
           IN  /\ tdRet.status = "success" <=> errors = {}
               /\ tdRet.status = "partial_success" <=> errors # {}
               /\ tdRet.deleted = {r \in DOMAIN tdRet.out : tdRet.out[r] = "done"}
               /\ tdRet.failed = errors
               /\ \A r \in DOMAIN tdRet.out :
                     tdRet.out[r] = "notfound" => r \notin tdRet.deleted \cup tdRet.failed
    /\ (tdRet.status # "none" /\ ~tdRet.ran) =>
           (tdRet.status = "error" /\ tdRet.deleted = {} /\ tdRet.failed = {})

\* the NIC deletion raised not-found and the VM deletion completed: success,
\* with the VM under deleted
C21_Witness ==
    /\ tdRet.ran /\ tdRet.out["nic"] = "notfound" /\ tdRet.out["vm"] = "done"
    /\ tdRet.status = "success" /\ "vm" \in tdRet.deleted

\* C22 (as claimed): a start handler (start_job, http_start, StartSession)
\* called with an identity that is missing, undecodable, without user
\* identifier or without the required membership answers 403 and starts no
\* work: no ledger job, no background thread, no orchestration.
C22_Original ==
    [][ /\ \A principal \in Principals \ {"invited"} :
              StartJob("POST", principal) =>
                  (lastHttp'.code = 403 /\ store' = store /\ tpc' = tpc)
        /\ \A principal \in BackendPrincipals \ {"allowed"} :
              /\ HttpStart(principal) => (lastHttp'.code = 403 /\ wf' = wf)
              /\ \A duration \in {"number", "other"} :
                    StartSession(principal, duration) => (lastHttp'.code = 403 /\ wf' = wf)
      ]_vars

\* C23 (as claimed): no exception of the compute/network collaborator leaves
\* a public provisioning operation: every VMProvisioner call returns either
\* success or a structured error, and no VMManager.create_vm or destroy_vm
\* call ends by raising.
C23_Original ==
    /\ lastRet.op # "none" => (lastRet.ok \/ lastRet.error # "none")
    /\ \A i \in Inst : wf[i].mgr # "raised"

C25_CreateTimerDestroy ==
    \A i \in Inst :
        /\ wf[i].destroyCalls <= 1
        /\ wf[i].pc \in {"timer", "destroy"} => wf[i].createName # NoName
        /\ wf[i].timerFired => wf[i].createName # NoName
        /\ wf[i].pc = "destroy" => (wf[i].timerFired /\ wf[i].destroyCalls = 0)
        /\ wf[i].destroyCalls = 1 =>
              /\ wf[i].pc = "done" /\ wf[i].timerFired
              /\ wf[i].createName # NoName
              /\ wf[i].destroyName = wf[i].createName

\* a run of functions/orchestrator that created its VM, waited and tore it down
C25_Witness ==
    \E i \in Inst :
        /\ wf[i].kind = "orchestrator" /\ wf[i].pc = "done"
        /\ wf[i].createOk /\ wf[i].timerFired /\ wf[i].destroyCalls = 1
        /\ wf[i].destroyName = WgVm(0)

\* C26 (as claimed): every object the create activity of a durable
\* orchestration brought into existence is torn down: the orchestration does
\* not end without having invoked its teardown activity, also when the create
\* activity created objects and then reported an error.
C26_Original ==
    \A i \in Inst :
        (wf[i].pc = "done" /\ wf[i].made # {}) => wf[i].destroyCalls >= 1


\* ------------------------------------------------------------------------
\* get_or_create_vm over a resource group that already holds VMs: any of the
\* VMs wg-<n> may be there, in any provisioning state, with or without the
\* purpose tag, listed or not yet listed
\* ------------------------------------------------------------------------
InitScan ==
    /\ InitIdleExtract
    /\ InitIdleDryRun
    /\ InitIdleJobs
    /\ InitIdleWf
    /\ now = 0
    /\ vmState \in [Names -> {"Absent", "Creating", "Updating", "Succeeded", "Failed", "Deleting"}]
    /\ vmListed \in [Names -> BOOLEAN]
    /\ \A n \in Names : vmListed[n] => vmState[n] # "Absent"
    /\ vmTagged \in [Names -> BOOLEAN]
    /\ \A n \in Names : vmState[n] = "Absent" => vmTagged[n]
    /\ pip = [n \in Names |-> vmState[n] # "Absent"]
    /\ nic = [n \in Names |-> vmState[n] # "Absent"]
    /\ sharedNet = (\E n \in Names : vmState[n] # "Absent")
    /\ pc = [p \in Procs |-> "idle"]
    /\ name = [p \in Procs |-> NoName]
    /\ calls = 0
    /\ lastRet = NoResult
    /\ lastObs = NoObs
    /\ atScan = [p \in Procs |-> NoScan]
    /\ overlapped = FALSE
    /\ steps = [p \in Procs |-> <<>>]
    /\ tornDown = FALSE

\* one caller at a time, nothing else touching the resource group
NextScan ==
    \/ GetOrCreateScan(1)
    \/ CreateNet(1)
    \/ CreateIp(1)
    \/ CreateNic(1)
    \/ CreateVm(1)

SpecScan == InitScan /\ [][NextScan]_vars

\* C27: a get_or_create_vm call that obtained the listing returns an existing
\* VM (isExisting true, operationId the name of the first such VM, nothing
\* created) exactly when the listing holds a VM tagged purpose=wireguard-vpn
\* in state Succeeded, Creating or Updating; the VM returned is never an
\* untagged one; and when no listed tagged VM is in one of these states the
\* call goes on to create_vm, which requests a new VM or reports why not.
C27_ExistingIffTaggedActive ==
    (lastRet.op = "getOrCreate" /\ lastObs.listOk) =>
        /\ (lastRet.isExisting = "true") <=> (lastObs.first # NoName)
        /\ lastObs.first # NoName =>
              /\ lastRet.ok /\ lastRet.opId = lastObs.first /\ ~lastObs.created
              /\ vmTagged[lastRet.opId]
              /\ lastRet.status \in {"Succeeded", "Creating", "Updating"}
        /\ lastObs.first = NoName =>
              /\ lastObs.created \/ ~lastRet.ok
              /\ lastObs.created => (lastRet.ok /\ lastRet.isExisting # "true")

\* an existing tagged VM is returned although an untagged VM in an active
\* state comes before it in the listing
C27_Witness ==
    /\ lastRet.op = "getOrCreate" /\ lastRet.isExisting = "true"
    /\ \E n \in Names :
          /\ n < lastRet.opId /\ vmListed[n] /\ ~vmTagged[n]
          /\ vmState[n] \in {"Succeeded", "Creating", "Updating"}

\* C28 (as claimed): create_vm returns once the VM has been requested, and
\* the data it returns then has status Creating or InProgress, no address,
\* no configuration text and isExisting = false.
C28_Original ==
    (lastRet.op = "getOrCreate" /\ lastRet.ok /\ lastObs.created) =>
        /\ lastRet.status \in {"Creating", "InProgress"}
        /\ lastRet.publicIp = None
        /\ lastRet.confText = None
        /\ lastRet.isExisting = "false"

\* C29 (as claimed): any two invocations that create a VM use distinct VM
\* names, also when both fall into the same clock second: two create_vm
\* calls in progress never hold the same vm_name, and two orchestration
\* instances never create under the same name.
C29_Original ==
    /\ \A p, q \in Procs :
          (p # q /\ name[p] # NoName /\ name[q] # NoName) => name[p] # name[q]
    /\ \A i, j \in Inst :
          (i # j /\ wf[i].createName # NoName /\ wf[j].createName # NoName)
              => wf[i].createName # wf[j].createName

\* get_vm_status queried for the VMs of such a resource group
NextProject == \E id \in Names : GetVmStatus(id)

SpecProject == InitScan /\ [][NextProject]_vars

\* C30: get_vm_status of a VM the provider returns in a state other than
\* Succeeded and Failed: for Creating and Updating the status is InProgress
\* and the progress text is "VM provisioning state: <state>"; for any other
\* state the status is that state itself and the progress text is
\* "VM state: <state>"; either way the call succeeds and carries no error,
\* no address and no configuration text.
C30_OtherStatesProjected ==
    (lastRet.op = "getStatus" /\ lastRet.prov \notin QueryErrors \cup {"Succeeded", "Failed"}) =>
        /\ lastRet.prov = vmState[lastRet.opId]
        /\ lastRet.ok /\ lastRet.error = "none"
        /\ lastRet.publicIp = None /\ lastRet.confText = None
        /\ lastRet.progressState = lastRet.prov
        /\ lastRet.prov \in {"Creating", "Updating"} =>
              (lastRet.status = "InProgress" /\ lastRet.progress = "VM provisioning state")
        /\ lastRet.prov \notin {"Creating", "Updating"} =>
              (lastRet.status = lastRet.prov /\ lastRet.progress = "VM state")

\* the status of a VM the provider reports as Updating has been queried
C30_Witness ==
    /\ lastRet.op = "getStatus" /\ lastRet.prov = "Updating"
    /\ vmState[lastRet.opId] = "Updating" /\ lastRet.status = "InProgress"

\* C31: each reply the polling loop gets is mapped onto the job's record: a
\* failed query fails the job at once with the query's message; a reply
\* 'completed' completes the job with the reply's result; a reply 'failed'
\* fails the job with the reply's error; a reply with any other status text
\* leaves the job running with the reply's progress written to the record;
\* and the loop asks upstream nothing more once it has written completed or
\* failed.  (Statuses are compared after .lower(); a missing result, error
\* or progress key reads as {}, "Upstream job failed" or "Processing...".)
C31_RepliesMapped ==
    \A j \in Jobs :
        LET reply == jlog[j].reply
            lower == IF reply.status = "COMPLETED" THEN "completed" ELSE reply.status
            given(default) == IF reply.val = "absent" THEN default ELSE reply.val
        IN  /\ ~jlog[j].queriedAfterTerminal
            /\ (reply # NoReply /\ reply.status # "malformed") =>
                  /\ j \in DOMAIN store
                  /\ ~reply.ok =>
                        (store[j].status = "failed" /\ store[j].error = reply.val /\ tpc[j] = "done")
                  /\ (reply.ok /\ lower = "completed") =>
                        /\ store[j].status = "completed" /\ store[j].result = given("{}")
                        /\ store[j].error = "none" /\ tpc[j] = "done"
                  /\ (reply.ok /\ lower = "failed") =>
                        /\ store[j].status = "failed" /\ store[j].error = given("Upstream job failed")
                        /\ store[j].result = "none" /\ tpc[j] = "done"
                  /\ (reply.ok /\ lower \notin {"completed", "failed"}) =>
                        /\ store[j].status = "running" /\ store[j].progress = given("Processing...")
                        /\ store[j].result = "none" /\ store[j].error = "none"
                        /\ tpc[j] = "poll"

\* a job failed by a 'failed' reply that came after an earlier reply had left
\* it running
C31_Witness ==
    \E j \in Jobs :
        /\ jlog[j].reply = [ok |-> TRUE, status |-> "failed", val |-> "quota exceeded"]
        /\ attempt[j] >= 2 /\ store[j].status = "failed" /\ store[j].error = "quota exceeded"

\* C32: the ledger's methods are serialized by its lock: at most one thread
\* is inside a method at a time, and when an update_job call returns the
\* ledger is exactly what update_job as a whole makes of the ledger the call
\* found on entry: every field of its updates is in the record, nothing that
\* another call wrote is lost, and lastUpdatedAt is stamped.
C32_UpdatesSerialized ==
    [][ /\ \A p, q \in Procs : (lk[p].pc # "idle" /\ lk[q].pc # "idle") => p = q
        /\ \A p \in Procs :
              (lk[p].pc = "stamp" /\ lk'[p].pc = "idle") =>
                  /\ store' = update_job(lk[p].before, lk[p].id, lk[p].updates)
                  /\ store'[lk[p].id].lastUpdatedAt = now
                  /\ \A f \in DOMAIN lk[p].updates :
                        store'[lk[p].id][f] = lk[p].updates[f] ]_vars

\* both threads have updated the job, one with set_completed and one with
\* set_failed, and the record holds the fields of both, stamped after the
\* clock moved
C32_Witness ==
    /\ \A p \in Procs : lk[p].pc = "idle"
    /\ 1 \in DOMAIN store
    /\ store[1].result = "upstream_result" /\ store[1].error = "Upstream job failed"
    /\ store[1].createdAt = 0 /\ store[1].lastUpdatedAt = 1

\* C33: what a get_vm_status call returns is made of the provider's answers
\* at the time of the call and of nothing else: the provisioning state it
\* reports on is the one the provider holds for the VM at that moment (or
\* the provider's error), an address is returned only if the provider holds
\* one, the result is the projection of these answers and job_status's
\* response is built from that result alone, whatever calls came before.
C33_StatusFromLiveState ==
    [][ (lastRet'.op = "getStatus" /\ lastRet' # lastRet) =>
            LET id == lastRet'.opId
                got == lastRet'.prov
            IN  /\ got \notin QueryErrors =>
                      (id \in Names /\ vmListed[id] /\ got = vmState[id] /\ got # "Absent")
                /\ got \in {"ResourceNotFound", "ResourceGroupNotFound"} =>
                      ~(id \in Names /\ vmListed[id] /\ vmState[id] # "Absent")
                /\ lastObs'.ip # None => (id \in Names /\ pip[id])
                /\ lastRet' = get_vm_status(id, got, lastObs'.ip, lastRet'.run, lastRet'.feed)
                /\ lastHttp' = JobStatusResponse(id, lastRet')
                /\ UNCHANGED <<vmState, vmListed, pip, nic>> ]_vars

\* a poll that found the VM Succeeded and returned its configuration, after
\* a get_or_create_vm call had created it and the provider had finished it
C33_Witness ==
    /\ lastRet.op = "getStatus" /\ lastRet.status = "Succeeded" /\ lastRet.confText # None
    /\ calls >= 1 /\ lastRet.opId \in Names /\ vmState[lastRet.opId] = "Succeeded"

\* C34 (as claimed): when the poll before found the VM Succeeded and its
\* config retrieval failed, a poll whose run command output holds a valid
\* payload returns success with status Succeeded and the config extracted
\* from that output.
C34_Original ==
    [][ ( /\ lastRet.op = "getStatus" /\ lastRet.prov = "Succeeded"
          /\ retrieve_wireguard_config_via_run_command(lastRet.run) = None
          /\ lastRet'.op = "getStatus" /\ lastRet'.prov = "Succeeded"
          /\ lastRet'.opId = lastRet.opId
          /\ retrieve_wireguard_config_via_run_command(lastRet'.run) # None )
        => ( /\ lastRet'.ok
             /\ lastRet'.status = "Succeeded"
             /\ lastRet'.confText # None ) ]_vars

\* C35: the statuses written to a job's record are pending, then running,
\* then exactly one of completed and failed, in this order and each once: the
\* record's status is always the last one written, a thread that has ended
\* has made its one terminal write as its last status write, and a thread
\* that has not ended has made none.
C35_OneTerminalWrite ==
    \A j \in Jobs :
        LET written == jlog[j].statuses
        IN  /\ j \in DOMAIN store <=> written # <<>>
            /\ j \in DOMAIN store =>
                  /\ Len(written) <= 3
                  /\ written[1] = "pending"
                  /\ Len(written) >= 2 => written[2] = "running"
                  /\ Len(written) = 3 => written[3] \in {"completed", "failed"}
                  /\ store[j].status = written[Len(written)]
                  /\ tpc[j] = "done" <=> Len(written) = 3
                  /\ tpc[j] = "started" <=> Len(written) = 1

\* a job ended by the exception path: a malformed reply raised inside the
\* polling loop and the except of _process_job_async wrote the failure
C35_Witness ==
    \E j \in Jobs :
        /\ tpc[j] = "done" /\ jlog[j].reply.status = "malformed"
        /\ jlog[j].statuses = <<"pending", "running", "failed">>
        /\ store[j].error = "Internal error"

\* C36: with its background thread scheduled and every upstream call
\* returning, each job of the ledger eventually has status completed or
\* failed.
C36_JobsTerminate ==
    \A j \in Jobs :
        (j \in DOMAIN store) ~> (j \in DOMAIN store /\ store[j].status \in {"completed", "failed"})

\* a job that upstream kept reporting as running until the attempt budget
\* was used up, failed with the timeout message
C36_Witness ==
    \E j \in Jobs :
        /\ j \in DOMAIN store
        /\ store[j].status = "failed" /\ store[j].error = "Job timed out after 5 minutes"
        /\ jlog[j].reply = NoReply /\ attempt[j] = MaxAttempts

\* C37: a job's record is in the ledger before its background thread takes
\* a step: a thread exists only for a job of the ledger, no write of a
\* thread ever found the record missing, and when start_job has answered 202
\* the record of the operation id it returned is in the ledger.
C37_RecordBeforeThread ==
    /\ \A j \in Jobs : tpc[j] # "none" => j \in DOMAIN store
    /\ \A j \in Jobs : ~jlog[j].missed
    /\ (lastHttp.handler = "start_job" /\ lastHttp.code = 202) =>
          \E j \in DOMAIN store : lastHttp.opId = Uuid(j)

\* the thread of the job just accepted has made its first write, which found
\* the record
C37_Witness ==
    \E j \in Jobs :
        /\ lastHttp.handler = "start_job" /\ lastHttp.code = 202 /\ lastHttp.opId = Uuid(j)
        /\ tpc[j] = "provision" /\ j \in DOMAIN store /\ store[j].status = "running"
        /\ jlog[j].write.status = "running" /\ ~jlog[j].missed

\* C38: whatever the interleaving of concurrent get_status_store calls, at
\* most one StatusStore is ever constructed, and every call that has
\* returned returned that one instance (never None, never a second one).
C38_OneInstance ==
    /\ gss.constructed <= 1
    /\ \A p \in Procs :
          gss.ret[p] # NotCalled => gss.ret[p] # NoInstance /\ gss.ret[p] = gss.instance
    /\ \A p, q \in Procs :
          gss.ret[p] # NotCalled /\ gss.ret[q] # NotCalled => gss.ret[p] = gss.ret[q]

\* two callers both saw None at the outer test; one has constructed the
\* store and returned it, the other is still waiting for the lock
C38_Witness ==
    \E p, q \in Procs :
        /\ gss.pc[p] = "acquire" /\ gss.ret[p] = NotCalled
        /\ gss.constructed = 1 /\ gss.lock = 0
        /\ gss.pc[q] = "idle" /\ gss.ret[q] = gss.instance /\ gss.instance # NoInstance

\* C39: a step that ends a get_vm_status call, or a get_or_create_vm call in
\* its reuse branch (isExisting true), leaves every object of the provider
\* as it was (VMs, addresses, interfaces, shared network and security
\* group, tags); if the call sent the run command, the provisioning state it
\* had read was Succeeded and the VM it names is in that state.
C39_ReadOnlyCalls ==
    [][ ( /\ lastRet' # lastRet \/ lastObs' # lastObs
          /\ \/ lastRet'.op = "getStatus"
             \/ lastRet'.op = "getOrCreate" /\ lastRet'.isExisting = "true" )
        => /\ UNCHANGED provVars
           /\ lastRet'.run # NoRun =>
                 lastRet'.prov = "Succeeded" /\ vmState'[lastRet'.opId] = "Succeeded" ]_vars

\* a get_or_create_vm call has returned an existing Succeeded VM after
\* sending the run command to it
C39_Witness ==
    /\ lastRet.op = "getOrCreate" /\ lastRet.isExisting = "true"
    /\ lastRet.run # NoRun /\ lastRet.prov = "Succeeded"
    /\ vmState[lastRet.opId] = "Succeeded" /\ pip[lastRet.opId]
====
